---- MODULE Spec2Model ----
(***************************************************************************)
(* MCU command/response protocol engine of zilia-mmep-control-gui          *)
(* (src/mcu.py): MCUResponse.parse, and MCUWorker with its command queue,  *)
(* single outstanding command, ack timer, receive buffer and serial port.  *)
(*                                                                         *)
(* Bytes are one-character strings, byte strings are sequences of them.    *)
(* Every handler of MCUWorker runs to completion on the worker's event     *)
(* loop, so each handler is one action.                                    *)
(***************************************************************************)
EXTENDS Integers, Sequences, FiniteSets, TLC

VARIABLES
  mcu,                 \* self.mcu: "None", or a QSerialPort that is "open" or "closed"
  ack_timer,           \* self.ack_timer: "None", or a QTimer that is "active" or "inactive"
  connected,           \* self.connected
  command_queue,       \* self.command_queue: deque of (command, com_id)
  waiting_for_com_id,  \* self.waiting_for_com_id: None or a com_id
  serial_buffer,       \* self.serial_buffer
  pending_calls,       \* QTimer.singleShot(0, self._process_queue) calls not yet run
  com_id_counter,      \* com_id_counter of each producer's encoder
  encoded,             \* what the last _format_command call returned, and to whom
  calls,               \* how many times each producer's encoder has been called
  submitted,           \* history: every submit_command call: its number n, its
                       \* arguments, self.connected at the call (conn), and
                       \* whether disconnect_mcu has run since (cut)
  written,             \* history: every command handed to self.mcu.write, in order
  resolved,            \* history: how each written command stopped being awaited
  emitted,             \* what the last handler emitted and wrote, in order
  frames,              \* the frames the last read_message sliced off the buffer
  stale,               \* leading bytes of serial_buffer received before the last disconnect
  lost_partial,        \* the last disconnect_mcu found bytes in serial_buffer
  op,                  \* the last handler that ran
  wire,                \* FeedSpec: the bytes the MCU has sent that no readAll has returned yet
  received,            \* FeedSpec: every byte readAll has returned, in order
  extracted,           \* FeedSpec: every message read_message has sliced off the buffer, in order
  dispatched,          \* FeedSpec: everything read_message has emitted, in order
  timer_left,          \* NoAckSpec: ms until the running ack_timer expires
  since_write,         \* NoAckSpec: ms since the last self.mcu.write, up to ack_timeout
  write_gaps,          \* NoAckSpec: history: since_write at every write but the first
  timeout_log,         \* NoAckSpec: history: the id of every timeout log entry, in order
  threads,             \* ProducerSpec: the fields of the three controller threads
  produced,            \* ProducerSpec: the last thread method called and what it did
  pumps,               \* PumpSpec: SyringePumps.pumps
  requested,           \* PumpSpec: the rate last passed to set_flow for each pump
  arduino_signal,      \* PumpSpec: what the last set_flow emitted
  answered,            \* LateAckSpec: the written commands the MCU has sent its ack for
  ack_for,             \* LateAckSpec: the written command the MCU's last ack was sent for
  runner               \* RunnerSpec: the SequenceRunner's fields and what it has done

\* the variables only NoAckSpec changes
clock_vars == <<timer_left, since_write, write_gaps, timeout_log>>

\* the variables only ProducerSpec changes
producer_vars == <<threads, produced>>

\* the variables only PumpSpec changes
pump_vars == <<pumps, requested, arduino_signal>>

\* the variables only LateAckSpec changes
late_vars == <<answered, ack_for>>

\* the variable only RunnerSpec changes
runner_vars == <<runner>>

aside_vars == <<clock_vars, producer_vars, pump_vars, late_vars, runner_vars>>

vars == <<mcu, ack_timer, connected, command_queue, waiting_for_com_id,
          serial_buffer, pending_calls, com_id_counter, encoded, calls, submitted, written, resolved,
          emitted, frames, stale, lost_partial, op, wire, received,
          extracted, dispatched, aside_vars>>

\* MCUWorker's fields, its histories and what its last handler did
worker_vars == <<mcu, ack_timer, connected, command_queue, waiting_for_com_id,
                 serial_buffer, pending_calls, submitted, written, resolved,
                 emitted, frames, stale, lost_partial, op>>

\* the encoders' call records
encoder_vars == <<encoded, calls>>

\* the variables only FeedSpec changes
feed_vars == <<wire, received, extracted, dispatched>>

--------------------------------------------------------------------------
(* Bounds of the model *)

\* submit_command calls in one behaviour
MaxSubmits == 3

\* bytes of an unfinished message serial_buffer may hold when read_message returns
MaxBuf == 8

--------------------------------------------------------------------------
(* Values *)

\* Python's None where a com_id (a byte string) is expected: a sequence no
\* byte string equals, since every byte is a one-character string.
None == <<"None">>

Digits == {"0", "1", "2", "3", "4", "5", "6", "7", "8", "9"}

DigitVal(c) ==
  CASE c = "0" -> 0 [] c = "1" -> 1 [] c = "2" -> 2 [] c = "3" -> 3
    [] c = "4" -> 4 [] c = "5" -> 5 [] c = "6" -> 6 [] c = "7" -> 7
    [] c = "8" -> 8 [] c = "9" -> 9

\* MCUResponse.OK, ERROR, FLOW, TEMP, DO
OK == <<"$", "O", "K", ",">>
ERROR == <<"$", "E", "R", "R", "O", "R", ",">>
FLOW == <<"$", "F", "L", "O", "W", ",">>
TEMP == <<"$", "T", "E", "M", "P", ",">>
DO == <<"$", "D", "O", ",">>

\* the delimiter b';\n' of read_message
Delim == <<";", "\n">>

--------------------------------------------------------------------------
(* Byte-string primitives used by read_message and parse *)

\* s[i:] of Python, i counted from 0
DropFirst(s, i) == SubSeq(s, i + 1, Len(s))

\* str.startswith
StartsWith(s, p) == Len(p) <= Len(s) /\ SubSeq(s, 1, Len(p)) = p

\* QByteArray.indexOf(b';\n'): the position (from 0) of the first
\* occurrence, -1 when there is none
IndexOf(buf) ==
  LET hits == {i \in 1..(Len(buf) - 1) : buf[i] = ";" /\ buf[i + 1] = "\n"}
  IN  IF hits = {} THEN -1
      ELSE (CHOOSE i \in hits : \A j \in hits : i <= j) - 1

\* str.strip(';\n'): drops every leading and trailing ';' and '\n'
Strip(s) ==
  LET keep == {i \in 1..Len(s) : s[i] \notin {";", "\n"}}
  IN  IF keep = {} THEN <<>>
      ELSE LET lo == CHOOSE i \in keep : \A j \in keep : i <= j
               hi == CHOOSE i \in keep : \A j \in keep : i >= j
           IN  SubSeq(s, lo, hi)

\* str.split(','): always at least one field, empty fields kept
RECURSIVE Split(_)
Split(s) ==
  LET commas == {i \in 1..Len(s) : s[i] = ","}
  IN  IF commas = {} THEN <<s>>
      ELSE LET k == CHOOSE i \in commas : \A j \in commas : i <= j
           IN  <<SubSeq(s, 1, k - 1)>> \o Split(SubSeq(s, k + 1, Len(s)))

\* int(s) succeeds: over the bytes of this model, a non-empty run of digits
IsInt(s) == Len(s) > 0 /\ \A i \in 1..Len(s) : s[i] \in Digits

\* float(s) succeeds: digits with at most one '.', at least one digit
IsFloat(s) ==
  /\ \A i \in 1..Len(s) : s[i] \in Digits \cup {"."}
  /\ Cardinality({i \in 1..Len(s) : s[i] = "."}) <= 1
  /\ \E i \in 1..Len(s) : s[i] \in Digits

\* the decimal value of a run of digits; leading zeros do not survive
RECURSIVE DecVal(_)
DecVal(s) ==
  IF s = <<>> THEN 0
  ELSE 10 * DecVal(SubSeq(s, 1, Len(s) - 1)) + DigitVal(s[Len(s)])

\* int(s): a Python int
IntVal(s) == [t |-> "int", num |-> DecVal(s), den |-> 1]

RECURSIVE Pow10(_)
Pow10(n) == IF n = 0 THEN 1 ELSE 10 * Pow10(n - 1)

RECURSIVE Reduce(_, _)
Reduce(num, den) ==
  IF den > 1 /\ num % 10 = 0 THEN Reduce(num \div 10, den \div 10)
  ELSE [t |-> "float", num |-> num, den |-> den]

\* float(s): the value as a reduced decimal fraction num/den, so that
\* '2.5', '2.50' and '02.5' convert to the same number
FloatVal(s) ==
  LET dots == {i \in 1..Len(s) : s[i] = "."}
      d    == IF dots = {} THEN Len(s) + 1 ELSE CHOOSE i \in dots : TRUE
      ip   == SubSeq(s, 1, d - 1)
      fp   == SubSeq(s, d + 1, Len(s))
  IN  Reduce(DecVal(ip \o fp), Pow10(Len(fp)))

--------------------------------------------------------------------------
(* MCUCommands: the encoder each producer owns *)

DigitChar(d) ==
  CASE d = 0 -> "0" [] d = 1 -> "1" [] d = 2 -> "2" [] d = 3 -> "3"
    [] d = 4 -> "4" [] d = 5 -> "5" [] d = 6 -> "6" [] d = 7 -> "7"
    [] d = 8 -> "8" [] d = 9 -> "9"

\* str(n) of a non-negative int
RECURSIVE Str(_)
Str(n) == IF n < 10 THEN <<DigitChar(n)>> ELSE Str(n \div 10) \o <<DigitChar(n % 10)>>

\* f"{n:04d}": zero-padded to four digits, wider when n needs more
RECURSIVE ZeroPad(_, _)
ZeroPad(s, width) == IF Len(s) >= width THEN s ELSE ZeroPad(<<"0">> \o s, width)

IdWidth == 4

\* mutant: the id is rendered before the counter is incremented
_generate_com_id_post_increment(counter0) ==
  [counter |-> counter0 + 1,
   com_id  |-> ZeroPad(Str(counter0), IdWidth)]

\* mutant: the counter wraps so that the id keeps its four digits
_generate_com_id_wraps(counter0) ==
  [counter |-> (counter0 + 1) % Pow10(IdWidth),
   com_id  |-> ZeroPad(Str((counter0 + 1) % Pow10(IdWidth)), IdWidth)]

\* the counter after the increment and the id rendered from it
_generate_com_id(counter0) ==
  [counter |-> counter0 + 1,
   com_id  |-> ZeroPad(Str(counter0 + 1), IdWidth)]

\* ','.join(...)
RECURSIVE Join(_)
Join(fields) ==
  IF fields = <<>> THEN <<>>
  ELSE IF Len(fields) = 1 THEN fields[1]
  ELSE fields[1] \o <<",">> \o Join(Tail(fields))

\* mutant: base_command keeps its trailing comma when there are no args
_format_command_keeps_comma(counter0, base_command, args) ==
  LET g == _generate_com_id(counter0)
      command_part == base_command \o Join([i \in 1..Len(args) |-> Str(args[i])])
      command_body == command_part \o <<",">> \o g.com_id \o <<",", "1">>
  IN  [command |-> command_body \o Delim, com_id |-> g.com_id, counter |-> g.counter]

\* mutant: the id returned is the bare counter, the id in the line is padded
_format_command_returns_unpadded(counter0, base_command, args) ==
  LET g == _generate_com_id(counter0)
      command_part ==
        IF args # <<>>
        THEN base_command \o Join([i \in 1..Len(args) |-> Str(args[i])])
        ELSE SubSeq(base_command, 1, Len(base_command) - 1)
      command_body == command_part \o <<",">> \o g.com_id \o <<",", "1">>
  IN  [command |-> command_body \o Delim, com_id |-> Str(g.counter), counter |-> g.counter]

\* args are non-negative ints; the result is the wire line, the id, and
\* the encoder's counter afterwards
_format_command(counter0, base_command, args) ==
  LET g == _generate_com_id(counter0)
      command_part ==
        IF args # <<>>
        THEN base_command \o Join([i \in 1..Len(args) |-> Str(args[i])])
        ELSE SubSeq(base_command, 1, Len(base_command) - 1)
      command_body == command_part \o <<",">> \o g.com_id \o <<",", "1">>
  IN  [command |-> command_body \o Delim, com_id |-> g.com_id, counter |-> g.counter]

\* TemperatureControllerCommands.TEMP_START
TEMP_START == <<"$", "T", "E", "M", "P", "C", "T", "R", "L", ",",
                "S", "T", "A", "R", "T", ",">>

\* TemperatureControllerCommands.temp_start_stop(targets, start=True)
temp_start_stop(counter0, targets) ==
  _format_command(counter0, TEMP_START, <<targets>>)

--------------------------------------------------------------------------
(* MCUResponse.parse: the signal it emits for one message, if any.         *)
(* The result is a sequence of zero or one emissions.                      *)

\* one observable effect of a handler: a signal emission or a transport write
Emit(sig, kind, payload) == [sig |-> sig, kind |-> kind, payload |-> payload]

\* the conversions of the $FLOW, loop: index 0 and odd indices int, even float
FlowFieldOk(payload, i) ==
  IF i = 0 \/ i % 2 = 1 THEN IsInt(payload[i + 1]) ELSE IsFloat(payload[i + 1])

FlowField(payload, i) ==
  IF i = 0 \/ i % 2 = 1 THEN IntVal(payload[i + 1]) ELSE FloatVal(payload[i + 1])

\* the conversions of the $TEMP, loop: i % 3 = 2 float, the others int
TempFieldOk(payload, i) ==
  IF i # 0 /\ i % 3 = 2 THEN IsFloat(payload[i + 1]) ELSE IsInt(payload[i + 1])

TempField(payload, i) ==
  IF i # 0 /\ i % 3 = 2 THEN FloatVal(payload[i + 1]) ELSE IntVal(payload[i + 1])

\* mutant: the except branch swallows the error (except: pass)
ParseError_silent(message) == <<>>

\* the except branch: info_signal with the raw message and the error
ParseError(message) ==
  <<Emit("info_signal", "parse_error", message)>>

\* the if/elif chain of parse on the stripped, non-empty message_str
classify(message_str, message) ==
  IF StartsWith(message_str, FLOW) THEN
    LET payload == Split(DropFirst(message_str, Len(FLOW)))
    IN  IF \A i \in 0..(Len(payload) - 1) : FlowFieldOk(payload, i)
        THEN <<Emit("flow_data_signal", "data",
                  [i \in 1..Len(payload) |-> FlowField(payload, i - 1)])>>
        ELSE ParseError(message)
  ELSE IF StartsWith(message_str, TEMP) THEN
    LET payload == Split(DropFirst(message_str, Len(TEMP)))
    IN  IF \A i \in 0..(Len(payload) - 1) : TempFieldOk(payload, i)
        THEN <<Emit("temp_data_signal", "data",
                  [i \in 1..Len(payload) |-> TempField(payload, i - 1)])>>
        ELSE ParseError(message)
  ELSE IF StartsWith(message_str, DO) THEN
    LET payload == Split(DropFirst(message_str, Len(DO)))
    IN  IF /\ Len(payload) >= 3
           /\ IsInt(payload[1]) /\ IsFloat(payload[2]) /\ IsFloat(payload[3])
        THEN <<Emit("do_data_signal", "data",
                  <<IntVal(payload[1]), FloatVal(payload[2]), FloatVal(payload[3])>>)>>
        ELSE ParseError(message)
  ELSE IF StartsWith(message_str, OK) THEN
    <<Emit("ok_signal", "data", Split(DropFirst(message_str, Len(OK))))>>
  ELSE IF StartsWith(message_str, ERROR) THEN
    <<Emit("error_signal", "data", Split(DropFirst(message_str, Len(ERROR))))>>
  ELSE <<Emit("info_signal", "info", message_str)>>

\* mutant: 'if not message_str: return' is missing
parse_classifies_empty(message) == classify(Strip(message), message)

parse(message) ==
  LET message_str == Strip(message)
  IN  IF message_str = <<>> THEN <<>> ELSE classify(message_str, message)

--------------------------------------------------------------------------
(* MCUWorker.  A handler is an operator from the worker's state (a record  *)
(* of its fields and of the histories its effects are appended to) to the  *)
(* state it leaves; a handler that calls another applies it.               *)

Last(s) == s[Len(s)]

\* log_signal.emit(...) of MCUWorker itself
Log(s, kind, payload) ==
  [s EXCEPT !.emitted = Append(@, Emit("log_signal", kind, payload))]

\* the history's record of one self.mcu.write: the queue entry, and whether
\* a disconnect_mcu ran between its submission and this write
Written(s, entry) ==
  [n |-> entry.n, command |-> entry.command, com_id |-> entry.com_id,
   cut |-> s.submitted[entry.n].cut]

\* mutant: the head is sent without looking at waiting_for_com_id
_process_queue_ignores_waiting(s) ==
  IF s.command_queue # <<>> THEN
    LET entry == Head(s.command_queue)
        s1    == [s EXCEPT !.command_queue = Tail(@)]
    IN  IF s1.connected /\ s1.mcu # "None" THEN
          [s1 EXCEPT !.waiting_for_com_id = entry.com_id,
                     !.written = Append(@, Written(s1, entry)),
                     !.emitted = Append(@, Emit("mcu.write", "command", entry)),
                     !.ack_timer = "active"]
        ELSE Log(s1, "dropped", entry.com_id)
  ELSE s

\* mutant: the connection is tested before the pop, so a command that cannot
\* be sent is reported and stays in the queue
_process_queue_keeps_unsent(s) ==
  IF s.waiting_for_com_id = None /\ s.command_queue # <<>> THEN
    LET entry == Head(s.command_queue)
    IN  IF s.connected /\ s.mcu # "None" THEN
          [s EXCEPT !.command_queue = Tail(@),
                    !.waiting_for_com_id = entry.com_id,
                    !.written = Append(@, Written(s, entry)),
                    !.emitted = Append(@, Emit("mcu.write", "command", entry)),
                    !.ack_timer = "active"]
        ELSE Log(s, "dropped", entry.com_id)
  ELSE s

_process_queue(s) ==
  IF s.waiting_for_com_id = None /\ s.command_queue # <<>> THEN
    LET entry == Head(s.command_queue)
        s1    == [s EXCEPT !.command_queue = Tail(@)]
    IN  IF s1.connected /\ s1.mcu # "None" THEN
          [s1 EXCEPT !.waiting_for_com_id = entry.com_id,
                     !.written = Append(@, Written(s1, entry)),
                     !.emitted = Append(@, Emit("mcu.write", "command", entry)),
                     !.ack_timer = "active"]
        ELSE Log(s1, "dropped", entry.com_id)
  ELSE s

\* the command that is awaited is the one written last
Resolve(s, how) ==
  [s EXCEPT !.resolved = Append(@, [n |-> Last(s.written).n,
                                    com_id |-> s.waiting_for_com_id,
                                    how |-> how])]

\* mutant: QTimer.singleShot(0, self._process_queue) is missing
_handle_mcu_ack_no_deferred_call(s, payload) ==
  IF payload = <<>> THEN s
  ELSE LET ack_com_id == payload[1]
       IN  IF ack_com_id = s.waiting_for_com_id THEN
             [Resolve(s, "ack") EXCEPT !.ack_timer = "inactive",
                                       !.waiting_for_com_id = None]
           ELSE s

\* mutant: the matching ack calls _process_queue itself
_handle_mcu_ack_calls_process_queue(s, payload) ==
  IF payload = <<>> THEN s
  ELSE LET ack_com_id == payload[1]
       IN  IF ack_com_id = s.waiting_for_com_id THEN
             _process_queue([Resolve(s, "ack") EXCEPT !.ack_timer = "inactive",
                                                      !.waiting_for_com_id = None])
           ELSE s

\* mutant: any ack releases the awaited command, whatever its id
_handle_mcu_ack_any_id(s, payload) ==
  IF payload = <<>> THEN s
  ELSE IF s.waiting_for_com_id # None THEN
         [Resolve(s, "ack") EXCEPT !.ack_timer = "inactive",
                                   !.waiting_for_com_id = None,
                                   !.pending_calls = @ + 1]
       ELSE s

_handle_mcu_ack(s, payload) ==
  IF payload = <<>> THEN s
  ELSE LET ack_com_id == payload[1]
       IN  IF ack_com_id = s.waiting_for_com_id THEN
             [Resolve(s, "ack") EXCEPT !.ack_timer = "inactive",
                                       !.waiting_for_com_id = None,
                                       !.pending_calls = @ + 1]
           ELSE s

\* mutant: the timed-out command is put back at the head of the queue
_handle_ack_timeout_requeues(s) ==
  IF s.waiting_for_com_id # None THEN
    LET timed_out_id == s.waiting_for_com_id
        again == [n |-> Last(s.written).n, command |-> Last(s.written).command,
                  com_id |-> Last(s.written).com_id]
        s1 == [Resolve(s, "timeout") EXCEPT !.waiting_for_com_id = None,
                                            !.command_queue = <<again>> \o @]
    IN  _process_queue(Log(s1, "timeout", timed_out_id))
  ELSE s

\* mutant: the queue is not processed after the timeout
_handle_ack_timeout_stays_idle(s) ==
  IF s.waiting_for_com_id # None THEN
    LET timed_out_id == s.waiting_for_com_id
        s1 == [Resolve(s, "timeout") EXCEPT !.waiting_for_com_id = None]
    IN  Log(s1, "timeout", timed_out_id)
  ELSE s

_handle_ack_timeout(s) ==
  IF s.waiting_for_com_id # None THEN
    LET timed_out_id == s.waiting_for_com_id
        s1 == [Resolve(s, "timeout") EXCEPT !.waiting_for_com_id = None]
    IN  _process_queue(Log(s1, "timeout", timed_out_id))
  ELSE s

\* the connections made in MCUWorker.__init__: every parser signal is
\* forwarded to the worker's signal of the same kind, info_signal to
\* log_signal, and ok_signal to ack_received and then to _handle_mcu_ack
Forwarded(sig) ==
  CASE sig = "flow_data_signal" -> "flow_data_received"
    [] sig = "temp_data_signal" -> "temp_data_received"
    [] sig = "do_data_signal"   -> "do_data_received"
    [] sig = "error_signal"     -> "error_received"
    [] sig = "info_signal"      -> "log_signal"
    [] sig = "ok_signal"        -> "ack_received"

\* mutant: error_signal is connected to _handle_mcu_ack as well
Dispatch_error_as_ack(s, e) ==
  LET s1 == [s EXCEPT !.emitted = Append(@, Emit(Forwarded(e.sig), e.kind, e.payload))]
  IN  IF e.sig \in {"ok_signal", "error_signal"}
      THEN _handle_mcu_ack(s1, e.payload) ELSE s1

\* mutant: any message from the MCU stops the ack timer
Dispatch_stops_timer(s, e) ==
  LET s1 == [s EXCEPT !.emitted = Append(@, Emit(Forwarded(e.sig), e.kind, e.payload)),
                      !.ack_timer = "inactive"]
  IN  IF e.sig = "ok_signal" THEN _handle_mcu_ack(s1, e.payload) ELSE s1

\* mutant: ack_received is emitted by _handle_mcu_ack, for a matching id
Dispatch_forwards_matching_acks(s, e) ==
  IF e.sig = "ok_signal" THEN
    IF e.payload # <<>> /\ e.payload[1] = s.waiting_for_com_id
    THEN _handle_mcu_ack([s EXCEPT !.emitted =
                            Append(@, Emit(Forwarded(e.sig), e.kind, e.payload))],
                         e.payload)
    ELSE s
  ELSE [s EXCEPT !.emitted = Append(@, Emit(Forwarded(e.sig), e.kind, e.payload))]

Dispatch(s, e) ==
  LET s1 == [s EXCEPT !.emitted = Append(@, Emit(Forwarded(e.sig), e.kind, e.payload))]
  IN  IF e.sig = "ok_signal" THEN _handle_mcu_ack(s1, e.payload) ELSE s1

\* the while loop of read_message: slice off one message, parse, repeat
RECURSIVE Drain(_)

\* mutant: the buffer keeps the last byte of the message that was sliced
\* off (mid(message_length - 1))
Drain_keeps_newline(s) ==
  LET end_of_message_pos == IndexOf(s.serial_buffer)
  IN  IF end_of_message_pos = -1 THEN s
      ELSE LET message_length == end_of_message_pos + 2
               message == SubSeq(s.serial_buffer, 1, message_length)
               s1 == [s EXCEPT
                        !.serial_buffer = DropFirst(@, message_length - 1),
                        !.frames = Append(@, [bytes |-> message, stale |-> s.stale > 0]),
                        !.stale = IF @ > message_length THEN @ - message_length ELSE 0]
               out == parse(message)
           IN  Drain(IF out = <<>> THEN s1 ELSE Dispatch(s1, out[1]))

\* mutant: the rest of the buffer is drained before the message sliced off
\* first is parsed
Drain_rest_first(s) ==
  LET end_of_message_pos == IndexOf(s.serial_buffer)
  IN  IF end_of_message_pos = -1 THEN s
      ELSE LET message_length == end_of_message_pos + 2
               message == SubSeq(s.serial_buffer, 1, message_length)
               s1 == [s EXCEPT
                        !.serial_buffer = DropFirst(@, message_length),
                        !.frames = Append(@, [bytes |-> message, stale |-> s.stale > 0]),
                        !.stale = IF @ > message_length THEN @ - message_length ELSE 0]
               out == parse(message)
               rest == Drain(s1)
           IN  IF out = <<>> THEN rest ELSE Dispatch(rest, out[1])

Drain(s) ==
  LET end_of_message_pos == IndexOf(s.serial_buffer)
  IN  IF end_of_message_pos = -1 THEN s
      ELSE LET message_length == end_of_message_pos + 2
               message == SubSeq(s.serial_buffer, 1, message_length)
               s1 == [s EXCEPT
                        !.serial_buffer = DropFirst(@, message_length),
                        !.frames = Append(@, [bytes |-> message, stale |-> s.stale > 0]),
                        !.stale = IF @ > message_length THEN @ - message_length ELSE 0]
               out == parse(message)
           IN  Drain(IF out = <<>> THEN s1 ELSE Dispatch(s1, out[1]))

\* mutant: the buffer is replaced by the incoming data, not appended to
read_message_overwrites_buffer(s, incoming_data) ==
  IF s.mcu = "None" THEN s
  ELSE Drain([s EXCEPT !.serial_buffer = incoming_data])

read_message(s, incoming_data) ==
  IF s.mcu = "None" THEN s
  ELSE Drain([s EXCEPT !.serial_buffer = @ \o incoming_data])

\* mutant: appendleft instead of append
submit_command_appendleft(s, command, com_id) ==
  LET n  == Len(s.submitted) + 1
      s1 == [s EXCEPT !.submitted =
               Append(@, [n |-> n, command |-> command, com_id |-> com_id,
                          conn |-> s.connected, cut |-> FALSE])]
  IN  _process_queue([s1 EXCEPT !.command_queue =
                        <<[n |-> n, command |-> command, com_id |-> com_id]>> \o @])

submit_command(s, command, com_id) ==
  LET n  == Len(s.submitted) + 1
      s1 == [s EXCEPT !.submitted =
               Append(@, [n |-> n, command |-> command, com_id |-> com_id,
                          conn |-> s.connected, cut |-> FALSE])]
  IN  _process_queue([s1 EXCEPT !.command_queue =
                        Append(@, [n |-> n, command |-> command, com_id |-> com_id])])

\* outcome: "ok" a matching port opened; "openfail" a matching port was
\* found and did not open; "noport" no matching port
\* (the early return when already connected is the guard of Connect)
connect_mcu(s, outcome) ==
  IF s.connected THEN s
  ELSE LET s1 == [s EXCEPT !.ack_timer = "inactive"]
       IN  CASE outcome = "ok" ->
                  [s1 EXCEPT !.mcu = "open", !.connected = TRUE,
                             !.emitted = @ \o <<Emit("log_signal", "connected", <<>>),
                                                Emit("connected_signal", "bool", TRUE)>>]
             [] outcome = "openfail" ->
                  [s1 EXCEPT !.mcu = "closed",
                             !.emitted = @ \o <<Emit("log_signal", "open_failed", <<>>),
                                                Emit("log_signal", "no_mcu", <<>>),
                                                Emit("connected_signal", "bool", FALSE)>>]
             [] outcome = "noport" ->
                  [s1 EXCEPT !.emitted = @ \o <<Emit("log_signal", "no_mcu", <<>>),
                                                Emit("connected_signal", "bool", FALSE)>>]

\* mutant: self.command_queue.clear() is missing
disconnect_mcu_keeps_queue(s) ==
  [s EXCEPT !.mcu = IF @ = "open" THEN "closed" ELSE @,
            !.ack_timer = IF @ # "None" THEN "inactive" ELSE @,
            !.connected = FALSE,
            !.serial_buffer = <<>>,
            !.waiting_for_com_id = None,
            !.emitted = @ \o <<Emit("connected_signal", "bool", FALSE),
                               Emit("log_signal", "disconnected", <<>>)>>]

\* mutant: self.serial_buffer.clear() is missing
disconnect_mcu_keeps_buffer(s) ==
  [s EXCEPT !.mcu = IF @ = "open" THEN "closed" ELSE @,
            !.ack_timer = IF @ # "None" THEN "inactive" ELSE @,
            !.connected = FALSE,
            !.command_queue = <<>>,
            !.waiting_for_com_id = None,
            !.emitted = @ \o <<Emit("connected_signal", "bool", FALSE),
                               Emit("log_signal", "disconnected", <<>>)>>]

\* mutant: self.waiting_for_com_id = None is missing
disconnect_mcu_keeps_waiting(s) ==
  [s EXCEPT !.mcu = IF @ = "open" THEN "closed" ELSE @,
            !.ack_timer = IF @ # "None" THEN "inactive" ELSE @,
            !.connected = FALSE,
            !.serial_buffer = <<>>,
            !.command_queue = <<>>,
            !.emitted = @ \o <<Emit("connected_signal", "bool", FALSE),
                               Emit("log_signal", "disconnected", <<>>)>>]

disconnect_mcu(s) ==
  [s EXCEPT !.mcu = IF @ = "open" THEN "closed" ELSE @,
            !.ack_timer = IF @ # "None" THEN "inactive" ELSE @,
            !.connected = FALSE,
            !.serial_buffer = <<>>,
            !.command_queue = <<>>,
            !.waiting_for_com_id = None,
            !.emitted = @ \o <<Emit("connected_signal", "bool", FALSE),
                               Emit("log_signal", "disconnected", <<>>)>>]

--------------------------------------------------------------------------
(* The state machine *)

\* the producers that submit: the temperature controller thread, whose
\* class attribute commands is one TemperatureControllerCommands encoder
Producers == {"temp"}

\* TemperatureControllerThread.set_enable(0, True): the controller's num is
\* 2**0, and the pair handed to mcu_signal is temp_start_stop(num, True)
set_enable(counter) == temp_start_stop(counter, 1)

Id1 == <<"0", "0", "0", "1">>
Id2 == <<"0", "0", "0", "2">>
Id3 == <<"0", "0", "0", "3">>

Bytes(frame) == frame \o Delim

\* what one readyRead may deliver
Chunks ==
  { Bytes(OK \o Id1),
    Bytes(OK \o Id2),
    Bytes(OK \o Id3),
    OK \o Id1,
    Delim,
    Bytes(OK \o Id1) \o Bytes(OK \o Id2),
    Bytes(ERROR \o Id1 \o <<",", "x">>),
    Bytes(DO \o <<"7", ",", "1", ".", "5", ",", "2">>) }

\* self.ack_timeout, in ms
ack_timeout == 500

--------------------------------------------------------------------------
(* The controller threads that produce commands. Values a method returns   *)
(* are kept with their Python type, by what iterating over them yields: a  *)
(* tuple yields its items, a str its characters.                           *)

NoValue == [type |-> "None", items |-> <<>>]
Tuple2(a, b) == [type |-> "tuple", items |-> <<a, b>>]
PyStr(chars) == [type |-> "str", items |-> [i \in 1..Len(chars) |-> <<chars[i]>>]]

\* command, com_id = value
Unpack2(value) ==
  IF Len(value.items) = 2
  THEN [raised |-> "", command |-> value.items[1], com_id |-> value.items[2]]
  ELSE [raised |-> "ValueError", command |-> None, com_id |-> None]

\* mcu_cmd.MCUCommands._format_command: the same line, returned alone
mcu_cmd_format_command(counter0, base_command, args) ==
  LET g == _generate_com_id(counter0)
      command_part ==
        IF args # <<>>
        THEN base_command \o Join([i \in 1..Len(args) |-> Str(args[i])])
        ELSE SubSeq(base_command, 1, Len(base_command) - 1)
      command_body == command_part \o <<",">> \o g.com_id \o <<",", "1">>
  IN  [value |-> PyStr(command_body \o Delim), counter |-> g.counter]

FLOW_SET_FLOWRATE == <<"$", "F", "L", "O", "W", "C", "T", "R", "L", ",", "S", "E", "T",
                       "_", "F", "L", "O", "W", "R", "A", "T", "E", ",">>
TEMP_STOP == <<"$", "T", "E", "M", "P", "C", "T", "R", "L", ",", "S", "T", "O", "P", ",">>
TEMP_CONT_TEMP_ON == <<"$", "T", "E", "M", "P", "C", "T", "R", "L", ",", "C", "O", "N", "T",
                       "_", "T", "E", "M", "P", "_", "O", "N", ",">>
TEMP_CONT_TEMP_OFF == <<"$", "T", "E", "M", "P", "C", "T", "R", "L", ",", "C", "O", "N", "T",
                        "_", "T", "E", "M", "P", "_", "O", "F", "F", ",">>
DO_INFO == <<"$", "D", "O", "S", "S", "R", ",", "I", "N", "F", "O", ",">>

num_flow_controllers == 4
num_temp_controllers == 2

\* the three threads after __init__; each has its own commands object
ThreadsInit ==
  [flow |-> [com_id_counter |-> 0,
             flowrate |-> [i \in 0..(num_flow_controllers - 1) |-> 0]],
   temp |-> [com_id_counter |-> 0,
             enable |-> [i \in 0..(num_temp_controllers - 1) |-> FALSE],
             continuous_reading |-> FALSE],
   do   |-> [com_id_counter |-> 0]]

NotProduced ==
  [by |-> "nobody", method |-> "", returned |-> NoValue, raised |-> "",
   mcu_signal |-> <<>>]

\* what a thread method did: the value its encoder returned, the exception
\* that ended it if any, and its mcu_signal emissions
Produced(by, method, returned, unpacked) ==
  [by |-> by, method |-> method, returned |-> returned, raised |-> unpacked.raised,
   mcu_signal |-> IF unpacked.raised = "" 
                  THEN << <<unpacked.command, unpacked.com_id>> >>
                  ELSE <<>>]

\* FlowControllerThread.set_flowrate; controller i has num 2 ** i
FlowControllerThread_set_flowrate(th, flow_controller_index, flowrate) ==
  LET th1 == IF flowrate # 0
             THEN [th EXCEPT !.flowrate[flow_controller_index] = flowrate]
             ELSE th
      target == 2 ^ flow_controller_index
      r == mcu_cmd_format_command(th1.com_id_counter, FLOW_SET_FLOWRATE,
                                  <<target, th1.flowrate[flow_controller_index]>>)
  IN  [thread |-> [th1 EXCEPT !.com_id_counter = r.counter],
       produced |-> Produced("flow", "set_flowrate", r.value, Unpack2(r.value))]

\* TemperatureControllerThread.set_enable, for a controller that exists
TemperatureControllerThread_set_enable(th, temp_controller_num, enable) ==
  LET th1 == [th EXCEPT !.enable[temp_controller_num] = enable]
      target == 2 ^ temp_controller_num
      c == _format_command(th1.com_id_counter,
                           IF enable THEN TEMP_START ELSE TEMP_STOP, <<target>>)
      returned == Tuple2(c.command, c.com_id)
  IN  [thread |-> [th1 EXCEPT !.com_id_counter = c.counter],
       produced |-> Produced("temp", "set_enable", returned, Unpack2(returned))]

\* TemperatureControllerThread.set_continuous_reading
TemperatureControllerThread_set_continuous_reading(th, enable) ==
  IF enable # th.continuous_reading THEN
    LET c == _format_command(th.com_id_counter,
                             IF enable THEN TEMP_CONT_TEMP_ON ELSE TEMP_CONT_TEMP_OFF,
                             <<>>)
        returned == Tuple2(c.command, c.com_id)
    IN  [thread |-> [th EXCEPT !.continuous_reading = enable,
                               !.com_id_counter = c.counter],
         produced |-> Produced("temp", "set_continuous_reading", returned,
                               Unpack2(returned))]
  ELSE
    [thread |-> th,
     produced |-> [NotProduced EXCEPT !.by = "temp",
                                      !.method = "set_continuous_reading"]]

\* DOSensorThread.do_info
DOSensorThread_do_info(th) ==
  LET c == _format_command(th.com_id_counter, DO_INFO, <<>>)
      returned == Tuple2(c.command, c.com_id)
  IN  [thread |-> [th EXCEPT !.com_id_counter = c.counter],
       produced |-> Produced("do", "do_info", returned, Unpack2(returned))]

--------------------------------------------------------------------------
(* SyringePumps                                                            *)

num_pumps == 4
microsteps == 8
steps_per_rev == 200

\* a pump after __init__; speed is kept in units of
\* 1 / (thread_pitch * (diameter / 2) ** 2 * pi), which set_flow never changes
pump__init__(pump_num) == [pump_num |-> pump_num, rate |-> 0, speed |-> 0]

\* pump.set_rate
set_rate(self, rate) ==
  [self EXCEPT !.rate = rate, !.speed = rate * microsteps * steps_per_rev]

\* SyringePumps.set_flow: the pumps afterwards and the arduino_signal emitted
set_flow(self_pumps, pump_num, rate) ==
  LET pumps1 == IF rate # 0
                THEN [self_pumps EXCEPT ![pump_num] = set_rate(@, rate)]
                ELSE self_pumps
  IN  [pumps |-> pumps1,
       arduino_signal |-> [command |-> "!kSetFlowRate", pump_num |-> pump_num,
                           rate |-> pumps1[pump_num].rate]]

--------------------------------------------------------------------------
(* SequenceRunner. A handler is an operator on the record of the runner's  *)
(* fields; log is the history of what the runner did, in order.            *)

\* one entry of a sequence: its type, and whether it has the parameters
\* that type reads
Event(type, complete) == [type |-> type, complete |-> complete]

\* the types whose branch emits a controller or logging signal
SignalTypes ==
  {"set_flow_rate", "enable_pump", "set_temperature", "enable_heater",
   "dispense_volume", "start_logging", "stop_logging"}

\* SequenceRunner.__init__; run counts the sequence_started emissions
SequenceRunner__init__ ==
  [sequence |-> <<>>, current_step |-> -1, _is_stopped |-> TRUE,
   delay_timer |-> "inactive", pending |-> 0, run |-> 0, log |-> <<>>,
   raised |-> "", stop_returned |-> FALSE, handler |-> "__init__"]

Did(self, ev, type, via) ==
  [self EXCEPT !.log = Append(@, [ev |-> ev, run |-> self.run,
                                  step |-> self.current_step, type |-> type,
                                  via |-> via])]

\* the except branch: self.log_widget does not exist, so the handler ends
\* with AttributeError before it reaches self.stop_sequence()
KeyErrorBranch(self, type, via) ==
  [Did(self, "step_failed", type, via) EXCEPT !.raised = "AttributeError"]

\* mutant: no test of _is_stopped
_process_next_step_ignores_stopped(self, via) ==
  LET s1 == [self EXCEPT !.current_step = @ + 1]
  IN  IF s1.current_step >= Len(s1.sequence) THEN
        [Did(s1, "sequence_finished", "", via) EXCEPT !._is_stopped = TRUE]
      ELSE
        LET event == s1.sequence[s1.current_step + 1]
        IN  IF ~event.complete THEN KeyErrorBranch(s1, event.type, via)
            ELSE IF event.type = "delay" THEN
              [Did(s1, "delay", event.type, via) EXCEPT !.delay_timer = "active"]
            ELSE IF event.type \in SignalTypes THEN
              [Did(s1, "signal", event.type, via) EXCEPT !.pending = @ + 1]
            ELSE
              [Did(s1, "unknown", event.type, via) EXCEPT !.pending = @ + 1]

\* via: what called it: "call" load_and_start_sequence, "callback" a
\* QTimer.singleShot(0, ...), "timer" the delay_timer
_process_next_step(self, via) ==
  IF self._is_stopped THEN self
  ELSE
    LET s1 == [self EXCEPT !.current_step = @ + 1]
    IN  IF s1.current_step >= Len(s1.sequence) THEN
          [Did(s1, "sequence_finished", "", via) EXCEPT !._is_stopped = TRUE]
        ELSE
          LET event == s1.sequence[s1.current_step + 1]
          IN  IF ~event.complete THEN KeyErrorBranch(s1, event.type, via)
              ELSE IF event.type = "delay" THEN
                [Did(s1, "delay", event.type, via) EXCEPT !.delay_timer = "active"]
              ELSE IF event.type \in SignalTypes THEN
                [Did(s1, "signal", event.type, via) EXCEPT !.pending = @ + 1]
              ELSE
                [Did(s1, "unknown", event.type, via) EXCEPT !.pending = @ + 1]

\* file: whether toml.load succeeds, and the 'event' list it gives
load_and_start_sequence(self, file) ==
  IF file.readable THEN
    LET s1 == [self EXCEPT !.sequence = file.event]
    IN  IF s1.sequence = <<>> THEN s1
        ELSE LET s2 == [s1 EXCEPT !._is_stopped = FALSE, !.current_step = -1,
                                  !.run = @ + 1]
             IN  _process_next_step(Did(s2, "sequence_started", "", "call"), "call")
  ELSE [self EXCEPT !.sequence = <<>>]

stop_sequence(self) ==
  IF ~self._is_stopped THEN
    [Did([self EXCEPT !._is_stopped = TRUE], "sequence_finished", "", "stop")
       EXCEPT !.delay_timer = "inactive"]
  ELSE self

\* no set_flow call yet
NoCall == -1

\* the state outside MCUWorker and its encoders, after construction
AsideInit ==
  /\ timer_left = 0
  /\ since_write = 0
  /\ write_gaps = <<>>
  /\ timeout_log = <<>>
  /\ threads = ThreadsInit
  /\ produced = NotProduced
  /\ pumps = [n \in 0..(num_pumps - 1) |-> pump__init__(n)]
  /\ requested = [n \in 0..(num_pumps - 1) |-> NoCall]
  /\ arduino_signal = [command |-> "", pump_num |-> NoCall, rate |-> NoCall]
  /\ answered = {}
  /\ ack_for = 0
  /\ runner = SequenceRunner__init__

\* no _format_command call yet
NotEncoded ==
  [by |-> "nobody", base_command |-> <<>>, args |-> <<>>,
   command |-> <<>>, com_id |-> None]

\* the record of producer p's call _format_command(base_command, args)
\* that returned c
Encoded(p, base_command, args, c) ==
  [by |-> p, base_command |-> base_command, args |-> args,
   command |-> c.command, com_id |-> c.com_id]

Cur ==
  [mcu |-> mcu, ack_timer |-> ack_timer, connected |-> connected,
   command_queue |-> command_queue, waiting_for_com_id |-> waiting_for_com_id,
   serial_buffer |-> serial_buffer, pending_calls |-> pending_calls,
   submitted |-> submitted, written |-> written, resolved |-> resolved,
   emitted |-> <<>>, frames |-> <<>>, stale |-> stale]

Commit(s, name) ==
  /\ mcu' = s.mcu
  /\ ack_timer' = s.ack_timer
  /\ connected' = s.connected
  /\ command_queue' = s.command_queue
  /\ waiting_for_com_id' = s.waiting_for_com_id
  /\ serial_buffer' = s.serial_buffer
  /\ pending_calls' = s.pending_calls
  /\ submitted' = s.submitted
  /\ written' = s.written
  /\ resolved' = s.resolved
  /\ emitted' = s.emitted
  /\ frames' = s.frames
  /\ stale' = s.stale
  /\ op' = name

Init ==
  /\ mcu = "None"
  /\ ack_timer = "None"
  /\ connected = FALSE
  /\ command_queue = <<>>
  /\ waiting_for_com_id = None
  /\ serial_buffer = <<>>
  /\ pending_calls = 0
  /\ com_id_counter = [p \in Producers |-> 0]
  /\ encoded = NotEncoded
  /\ calls = [p \in Producers |-> 0]
  /\ submitted = <<>>
  /\ written = <<>>
  /\ resolved = <<>>
  /\ emitted = <<>>
  /\ frames = <<>>
  /\ stale = 0
  /\ lost_partial = FALSE
  /\ op = "init"
  /\ wire = <<>>
  /\ received = <<>>
  /\ extracted = <<>>
  /\ dispatched = <<>>
  /\ AsideInit

\* a producer encodes a command and its mcu_signal reaches the
\* submit_command slot
Submit ==
  /\ Len(submitted) < MaxSubmits
  /\ \E p \in Producers :
       LET c == set_enable(com_id_counter[p])
       IN  /\ Commit(submit_command(Cur, c.command, c.com_id), "submit_command")
           /\ com_id_counter' = [com_id_counter EXCEPT ![p] = c.counter]
           /\ encoded' = Encoded(p, TEMP_START, <<1>>, c)
           /\ calls' = [calls EXCEPT ![p] = @ + 1]
  /\ UNCHANGED <<lost_partial, feed_vars, aside_vars>>

\* readyRead of the open port
Read ==
  /\ mcu = "open"
  /\ \E data \in Chunks :
       LET s == read_message(Cur, data)
       IN  /\ Len(s.serial_buffer) <= MaxBuf
           /\ Commit(s, "read_message")
  /\ UNCHANGED <<lost_partial, com_id_counter, encoder_vars, feed_vars, aside_vars>>

\* the single-shot ack_timer expires
AckTimeout ==
  /\ ack_timer = "active"
  /\ Commit(_handle_ack_timeout([Cur EXCEPT !.ack_timer = "inactive"]),
            "_handle_ack_timeout")
  /\ UNCHANGED <<lost_partial, com_id_counter, encoder_vars, feed_vars, aside_vars>>

\* the event loop runs one QTimer.singleShot(0, self._process_queue)
DeferredProcessQueue ==
  /\ pending_calls > 0
  /\ Commit(_process_queue([Cur EXCEPT !.pending_calls = @ - 1]), "_process_queue")
  /\ UNCHANGED <<lost_partial, com_id_counter, encoder_vars, feed_vars, aside_vars>>

Connect ==
  /\ ~connected
  /\ \E outcome \in {"ok", "openfail", "noport"} :
       Commit(connect_mcu(Cur, outcome), "connect_mcu")
  /\ UNCHANGED <<lost_partial, com_id_counter, encoder_vars, feed_vars, aside_vars>>

\* disconnect_mcu; the histories note what it cut off: the command that
\* was awaited, every command submitted so far, and the bytes it leaves
Disconnect ==
  LET s0 == IF waiting_for_com_id # None THEN Resolve(Cur, "disconnect") ELSE Cur
      s1 == [s0 EXCEPT !.submitted = [i \in 1..Len(@) |-> [@[i] EXCEPT !.cut = TRUE]]]
      s2 == disconnect_mcu(s1)
  IN  /\ Commit([s2 EXCEPT !.stale = Len(s2.serial_buffer)], "disconnect_mcu")
      /\ lost_partial' = (serial_buffer # <<>>)
      /\ UNCHANGED <<com_id_counter, encoder_vars, feed_vars, aside_vars>>

Next ==
  \/ Submit
  \/ Read
  \/ AckTimeout
  \/ DeferredProcessQueue
  \/ Connect
  \/ Disconnect

Spec == Init /\ [][Next]_vars

--------------------------------------------------------------------------
(* ProgressSpec: the worker with the event loop's promises. A running      *)
(* ack_timer expires unless it is stopped first, and a callback scheduled  *)
(* with QTimer.singleShot(0, ...) is run; the port delivers whole messages *)

\* the deliveries that end with the delimiter
WholeChunks ==
  {data \in Chunks :
     /\ Len(data) >= Len(Delim)
     /\ SubSeq(data, Len(data) - Len(Delim) + 1, Len(data)) = Delim}

\* readyRead of the open port with whole messages
ReadWhole ==
  /\ mcu = "open"
  /\ \E data \in WholeChunks : Commit(read_message(Cur, data), "read_message")
  /\ UNCHANGED <<lost_partial, com_id_counter, encoder_vars, feed_vars, aside_vars>>

ProgressNext ==
  \/ Submit
  \/ ReadWhole
  \/ AckTimeout
  \/ DeferredProcessQueue
  \/ Connect
  \/ Disconnect

ProgressSpec ==
  Init /\ [][ProgressNext]_vars
       /\ WF_vars(AckTimeout) /\ WF_vars(DeferredProcessQueue)

--------------------------------------------------------------------------
(* FeedSpec: one connection on which the MCU sends a stream of messages    *)
(* that the port delivers in chunks of any size                            *)

\* transmissions in the stream
MaxFrames == 2

\* what the MCU sends in one go, without the last delimiter: a message, or
\* a log line with a $TEMP, message behind it
WireFrames ==
  { FLOW \o <<"1", ",", "1", ",", "2">>,
    DO \o <<"7", ",", "1", ",", "2">>,
    FLOW \o <<"x">>,
    OK \o Id1,
    ERROR \o Id1,
    <<"h", "i">> \o Delim \o TEMP \o <<"1", ",", "1", ",", "2", ",", "3">>,
    <<";">> }

\* every stream of at most MaxFrames transmissions
RECURSIVE Streams(_)
Streams(n) ==
  IF n = 0 THEN {<<>>}
  ELSE Streams(n - 1) \cup
       {st \o Bytes(f) : st \in Streams(n - 1), f \in WireFrames}

\* the worker as MCUWorker.__init__ leaves it
__init__ ==
  [mcu |-> "None", ack_timer |-> "None", connected |-> FALSE,
   command_queue |-> <<>>, waiting_for_com_id |-> None,
   serial_buffer |-> <<>>, pending_calls |-> 0,
   submitted |-> <<>>, written |-> <<>>, resolved |-> <<>>,
   emitted |-> <<>>, frames |-> <<>>, stale |-> 0]

\* a handler's observations are of that handler alone
NextHandler(s) == [s EXCEPT !.emitted = <<>>, !.frames = <<>>]

\* the worker after connect_mcu has opened the port
Connected == NextHandler(connect_mcu(__init__, "ok"))

\* the worker after connect_mcu and two set_enable submissions: the first
\* command is awaited, the second is queued
Awaiting ==
  LET c1 == set_enable(0)
      c2 == set_enable(c1.counter)
  IN  [s |-> submit_command(NextHandler(submit_command(Connected, c1.command, c1.com_id)),
                            c2.command, c2.com_id),
       counter |-> c2.counter, encoded |-> Encoded("temp", TEMP_START, <<1>>, c2)]

\* the worker after connect_mcu alone
Idle == [s |-> Connected, counter |-> 0, encoded |-> NotEncoded]

\* a connection that is idle or awaits a command, on which the MCU sends
\* one of the streams
FeedStart(streams) ==
  /\ \E start \in {Idle, Awaiting} :
       /\ mcu = start.s.mcu
       /\ ack_timer = start.s.ack_timer
       /\ connected = start.s.connected
       /\ command_queue = start.s.command_queue
       /\ waiting_for_com_id = start.s.waiting_for_com_id
       /\ serial_buffer = start.s.serial_buffer
       /\ pending_calls = start.s.pending_calls
       /\ submitted = start.s.submitted
       /\ written = start.s.written
       /\ resolved = start.s.resolved
       /\ emitted = start.s.emitted
       /\ frames = start.s.frames
       /\ stale = start.s.stale
       /\ com_id_counter = [p \in Producers |-> start.counter]
       /\ encoded = start.encoded
       /\ calls = [p \in Producers |-> start.counter]
       /\ op = IF start.counter = 0 THEN "connect_mcu" ELSE "submit_command"
  /\ lost_partial = FALSE
  /\ wire \in streams
  /\ received = <<>>
  /\ extracted = <<>>
  /\ dispatched = <<>>
  /\ AsideInit

FeedInit == FeedStart(Streams(MaxFrames))

\* readyRead: readAll returns the next k bytes of the stream
Feed ==
  /\ mcu = "open"
  /\ \E k \in 1..Len(wire) :
       LET incoming_data == SubSeq(wire, 1, k)
           s == read_message(Cur, incoming_data)
       IN  /\ Commit(s, "read_message")
           /\ wire' = DropFirst(wire, k)
           /\ received' = received \o incoming_data
           /\ extracted' = extracted \o [i \in 1..Len(s.frames) |-> s.frames[i].bytes]
           /\ dispatched' = dispatched \o s.emitted
  /\ UNCHANGED <<lost_partial, com_id_counter, encoder_vars, aside_vars>>

\* the MCU answers within the ack timeout
FeedNext ==
  \/ Feed
  \/ DeferredProcessQueue

FeedSpec == FeedInit /\ [][FeedNext]_vars

--------------------------------------------------------------------------
(* EncoderSpec: one encoder called again and again                         *)

\* calls of the encoder
MaxCalls == 10000


\* TemperatureControllerCommands.TEMP_SET_TEMP
TEMP_SET_TEMP == <<"$", "T", "E", "M", "P", "C", "T", "R", "L", ",", "S", "E", "T", "_", "T", "E", "M", "P", ",">>

\* the calls made: temp_start_stop(1), info() of DOCommands (no
\* arguments), temp_set_temp(2, 37)
EncoderCalls ==
  { [base_command |-> TEMP_START, args |-> <<1>>],
    [base_command |-> DO_INFO, args |-> <<>>],
    [base_command |-> TEMP_SET_TEMP, args |-> <<2, 37>>] }

Encode ==
  /\ \E p \in Producers, call \in EncoderCalls :
       /\ calls[p] < MaxCalls
       /\ LET c == _format_command(com_id_counter[p], call.base_command, call.args)
          IN  /\ com_id_counter' = [com_id_counter EXCEPT ![p] = c.counter]
              /\ encoded' = Encoded(p, call.base_command, call.args, c)
              /\ calls' = [calls EXCEPT ![p] = @ + 1]
  /\ UNCHANGED <<worker_vars, feed_vars, aside_vars>>

EncoderNext == Encode

EncoderSpec == Init /\ [][EncoderNext]_vars

--------------------------------------------------------------------------
(* ParseSpec: MCUResponse.parse applied to one message, for every message  *)
(* made of a header and a list of fields                                   *)

\* fields in the message
MaxFields == 4

\* what a field may hold: an int, a float, text
Tokens == {<<"1">>, <<"2", ".", "5">>, <<"x">>}

\* how the message begins: one of the five headers, other text, nothing
Heads == {OK, ERROR, FLOW, TEMP, DO, <<"h", "i", ",">>, <<>>}

\* every list of at most n fields
RECURSIVE FieldLists(_)
FieldLists(n) ==
  IF n = 0 THEN {<<>>}
  ELSE FieldLists(n - 1) \cup
       {Append(fs, tok) : fs \in FieldLists(n - 1), tok \in Tokens}

Messages == {Bytes(h \o Join(fs)) : h \in Heads, fs \in FieldLists(MaxFields)}

ParseInit == FeedStart(Messages)

ParseNext == Feed

ParseSpec == ParseInit /\ [][ParseNext]_vars

--------------------------------------------------------------------------
(* AckSpec: the producer submits any of the encoder's commands, and the    *)
(* MCU acknowledges the command it was sent last, by the id it finds in    *)
(* the line it received                                                    *)

\* the id field of a command line as the MCU reads it: the field before
\* the last one
McuReadsId(line) ==
  LET fields == Split(Strip(line))
  IN  fields[Len(fields) - 1]

\* what may follow the id in the MCU's $OK, message
AckExtras == {<<>>, <<",", "7">>}

\* a producer encodes one of the commands and submits it
SubmitCall ==
  /\ Len(submitted) < MaxSubmits
  /\ \E p \in Producers, call \in EncoderCalls :
       LET c == _format_command(com_id_counter[p], call.base_command, call.args)
       IN  /\ Commit(submit_command(Cur, c.command, c.com_id), "submit_command")
           /\ com_id_counter' = [com_id_counter EXCEPT ![p] = c.counter]
           /\ encoded' = Encoded(p, call.base_command, call.args, c)
           /\ calls' = [calls EXCEPT ![p] = @ + 1]
  /\ UNCHANGED <<lost_partial, feed_vars, aside_vars>>

\* readyRead: the $OK, message of the MCU for the line written last, while
\* that command is outstanding
McuAcks ==
  /\ mcu = "open"
  /\ waiting_for_com_id # None
  /\ \E extra \in AckExtras :
       LET incoming_data == Bytes(OK \o McuReadsId(Last(written).command) \o extra)
       IN  Commit(read_message(Cur, incoming_data), "read_message")
  /\ UNCHANGED <<lost_partial, com_id_counter, encoder_vars, feed_vars, aside_vars>>

AckNext ==
  \/ Connect
  \/ SubmitCall
  \/ McuAcks
  \/ AckTimeout
  \/ DeferredProcessQueue

AckSpec == Init /\ [][AckNext]_vars

--------------------------------------------------------------------------
(* NoAckSpec: commands are submitted on an open connection and the MCU     *)
(* never answers. Time passes in ticks; a handler takes no time.           *)

TicksPerTimeout == 2

TickMs == ack_timeout \div TicksPerTimeout

\* the clock and the histories after a handler that leaves the worker as s:
\* _process_queue starts the ack_timer where it writes
Clocked(s) ==
  LET wrote == Len(s.written) > Len(written)
      IsTimeoutLog(e) == e.sig = "log_signal" /\ e.kind = "timeout"
      logs == SelectSeq(s.emitted, IsTimeoutLog)
  IN  /\ timer_left' = IF wrote THEN ack_timeout
                       ELSE IF s.ack_timer = "active" THEN timer_left ELSE 0
      /\ since_write' = IF wrote THEN 0 ELSE since_write
      /\ write_gaps' = IF wrote /\ written # <<>>
                       THEN Append(write_gaps, since_write) ELSE write_gaps
      /\ timeout_log' = timeout_log \o [i \in 1..Len(logs) |-> logs[i].payload]

Tick ==
  /\ timer_left' = IF timer_left > TickMs THEN timer_left - TickMs ELSE 0
  /\ since_write' = IF since_write + TickMs < ack_timeout
                    THEN since_write + TickMs ELSE ack_timeout
  /\ UNCHANGED <<worker_vars, com_id_counter, encoder_vars, feed_vars,
                 write_gaps, timeout_log, producer_vars, pump_vars, late_vars, runner_vars>>

\* a producer submits one of the encoder's commands while connected
SubmitConnected ==
  /\ connected
  /\ Len(submitted) < MaxSubmits
  /\ \E p \in Producers, call \in EncoderCalls :
       LET c == _format_command(com_id_counter[p], call.base_command, call.args)
           s == submit_command(Cur, c.command, c.com_id)
       IN  /\ Commit(s, "submit_command")
           /\ Clocked(s)
           /\ com_id_counter' = [com_id_counter EXCEPT ![p] = c.counter]
           /\ encoded' = Encoded(p, call.base_command, call.args, c)
           /\ calls' = [calls EXCEPT ![p] = @ + 1]
  /\ UNCHANGED <<lost_partial, feed_vars, producer_vars, pump_vars, late_vars, runner_vars>>

\* the ack_timer started ack_timeout ms ago or earlier
TimerExpires ==
  /\ ack_timer = "active"
  /\ timer_left = 0
  /\ LET s == _handle_ack_timeout([Cur EXCEPT !.ack_timer = "inactive"])
     IN  Commit(s, "_handle_ack_timeout") /\ Clocked(s)
  /\ UNCHANGED <<lost_partial, com_id_counter, encoder_vars, feed_vars,
                 producer_vars, pump_vars, late_vars, runner_vars>>

NoAckNext ==
  \/ Connect
  \/ SubmitConnected
  \/ Tick
  \/ TimerExpires

\* time passes, and the event loop delivers a timer that has expired
NoAckSpec ==
  /\ Init
  /\ [][NoAckNext]_vars
  /\ WF_vars(Tick)
  /\ WF_vars(TimerExpires)

--------------------------------------------------------------------------
(* ProducerSpec: the GUI calls methods of the three controller threads     *)

MaxProduced == 3

FlowInputs == {0, 50, 100}

FlowSetFlowrate ==
  /\ threads.flow.com_id_counter < MaxProduced
  /\ \E flow_controller_index \in {0, num_flow_controllers - 1}, flowrate \in FlowInputs :
       LET r == FlowControllerThread_set_flowrate(threads.flow, flow_controller_index, flowrate)
       IN  /\ threads' = [threads EXCEPT !.flow = r.thread]
           /\ produced' = r.produced
  /\ UNCHANGED <<worker_vars, com_id_counter, encoder_vars, feed_vars, clock_vars, pump_vars, late_vars,
                 runner_vars>>

TempSetEnable ==
  /\ threads.temp.com_id_counter < MaxProduced
  /\ \E temp_controller_num \in 0..(num_temp_controllers - 1), enable \in BOOLEAN :
       LET r == TemperatureControllerThread_set_enable(threads.temp, temp_controller_num, enable)
       IN  /\ threads' = [threads EXCEPT !.temp = r.thread]
           /\ produced' = r.produced
  /\ UNCHANGED <<worker_vars, com_id_counter, encoder_vars, feed_vars, clock_vars, pump_vars, late_vars,
                 runner_vars>>

TempSetContinuousReading ==
  /\ threads.temp.com_id_counter < MaxProduced
  /\ \E enable \in BOOLEAN :
       LET r == TemperatureControllerThread_set_continuous_reading(threads.temp, enable)
       IN  /\ threads' = [threads EXCEPT !.temp = r.thread]
           /\ produced' = r.produced
  /\ UNCHANGED <<worker_vars, com_id_counter, encoder_vars, feed_vars, clock_vars, pump_vars, late_vars,
                 runner_vars>>

DoInfo ==
  /\ threads.do.com_id_counter < MaxProduced
  /\ LET r == DOSensorThread_do_info(threads.do)
     IN  /\ threads' = [threads EXCEPT !.do = r.thread]
         /\ produced' = r.produced
  /\ UNCHANGED <<worker_vars, com_id_counter, encoder_vars, feed_vars, clock_vars, pump_vars, late_vars,
                 runner_vars>>

ProducerNext ==
  \/ FlowSetFlowrate
  \/ TempSetEnable
  \/ TempSetContinuousReading
  \/ DoInfo

ProducerSpec == Init /\ [][ProducerNext]_vars

--------------------------------------------------------------------------
(* PumpSpec: set_flow calls on SyringePumps                                *)

Rates == {0, 100, 200}

SetFlow ==
  /\ \E pump_num \in 0..(num_pumps - 1), rate \in Rates :
       LET r == set_flow(pumps, pump_num, rate)
       IN  /\ pumps' = r.pumps
           /\ arduino_signal' = r.arduino_signal
           /\ requested' = [requested EXCEPT ![pump_num] = rate]
  /\ UNCHANGED <<worker_vars, com_id_counter, encoder_vars, feed_vars, clock_vars,
                 producer_vars, late_vars, runner_vars>>

PumpNext == SetFlow

PumpSpec == Init /\ [][PumpNext]_vars

--------------------------------------------------------------------------
(* LateAckSpec: the temperature and DO threads submit commands to one      *)
(* MCUWorker, and the MCU acknowledges each command it was sent once, at   *)
(* any time after it was written. FlowControllerThread never emits         *)
(* mcu_signal (its methods end with ValueError), so it submits nothing.    *)

\* a thread method's mcu_signal emission reaches submit_command
Submitted(r) ==
  LET sig == r.produced.mcu_signal[1]
  IN  Commit(submit_command(Cur, sig[1], sig[2]), "submit_command")

TempSubmits ==
  /\ connected
  /\ Len(submitted) < MaxSubmits
  /\ LET r == TemperatureControllerThread_set_enable(threads.temp, 0, TRUE)
     IN  /\ threads' = [threads EXCEPT !.temp = r.thread]
         /\ produced' = r.produced
         /\ Submitted(r)
  /\ UNCHANGED <<lost_partial, com_id_counter, encoder_vars, feed_vars, clock_vars,
                 pump_vars, late_vars, runner_vars>>

DoSubmits ==
  /\ connected
  /\ Len(submitted) < MaxSubmits
  /\ LET r == DOSensorThread_do_info(threads.do)
     IN  /\ threads' = [threads EXCEPT !.do = r.thread]
         /\ produced' = r.produced
         /\ Submitted(r)
  /\ UNCHANGED <<lost_partial, com_id_counter, encoder_vars, feed_vars, clock_vars,
                 pump_vars, late_vars, runner_vars>>

\* readyRead: the MCU's $OK, for a command written earlier that it has not
\* acknowledged yet, with the id it read in that line
McuAcksLate ==
  /\ mcu = "open"
  /\ \E k \in (1..Len(written)) \ answered :
       /\ Commit(read_message(Cur, Bytes(OK \o McuReadsId(written[k].command))),
                 "read_message")
       /\ answered' = answered \cup {k}
       /\ ack_for' = k
  /\ UNCHANGED <<lost_partial, com_id_counter, encoder_vars, feed_vars, clock_vars,
                 producer_vars, pump_vars, runner_vars>>

LateAckNext ==
  \/ Connect
  \/ TempSubmits
  \/ DoSubmits
  \/ McuAcksLate
  \/ AckTimeout
  \/ DeferredProcessQueue

LateAckSpec == Init /\ [][LateAckNext]_vars

--------------------------------------------------------------------------
(* RunnerSpec: the GUI loads and stops sequences while the event loop      *)
(* runs the runner's zero-delay callbacks and its delay timer              *)

MaxRuns == 3

Flow_step == Event("set_flow_rate", TRUE)
Delay_step == Event("delay", TRUE)
Pump_step == Event("enable_pump", TRUE)
Incomplete_step == Event("set_temperature", FALSE)

\* what a sequence file may hold
SequenceFiles ==
  { [readable |-> TRUE,  event |-> <<Flow_step, Delay_step, Pump_step>>],
    [readable |-> TRUE,  event |-> <<Delay_step, Incomplete_step>>],
    [readable |-> TRUE,  event |-> <<>>],
    [readable |-> FALSE, event |-> <<>>] }

\* a handler of the runner leaves it as self
RunnerDoes(self, name) == [self EXCEPT !.handler = name]

\* everything but the runner
not_runner_vars ==
  <<worker_vars, com_id_counter, encoder_vars, feed_vars, clock_vars,
    producer_vars, pump_vars, late_vars>>

LoadAndStart ==
  /\ runner.run < MaxRuns
  /\ \E file \in SequenceFiles :
       runner' = RunnerDoes(load_and_start_sequence(
                              [runner EXCEPT !.raised = "", !.stop_returned = FALSE],
                              file),
                            "load_and_start_sequence")
  /\ UNCHANGED not_runner_vars

Stop ==
  /\ runner' = RunnerDoes([stop_sequence([runner EXCEPT !.raised = ""])
                             EXCEPT !.stop_returned = TRUE],
                          "stop_sequence")
  /\ UNCHANGED not_runner_vars

\* the event loop runs one QTimer.singleShot(0, self._process_next_step)
Callback ==
  /\ runner.pending > 0
  /\ runner' = RunnerDoes(_process_next_step(
                            [runner EXCEPT !.raised = "", !.pending = @ - 1],
                            "callback"),
                          "_process_next_step")
  /\ UNCHANGED not_runner_vars

\* the single-shot delay_timer expires
DelayTimerFires ==
  /\ runner.delay_timer = "active"
  /\ runner' = RunnerDoes(_process_next_step(
                            [runner EXCEPT !.raised = "", !.delay_timer = "inactive"],
                            "timer"),
                          "_process_next_step")
  /\ UNCHANGED not_runner_vars

RunnerNext ==
  \/ LoadAndStart
  \/ Stop
  \/ Callback
  \/ DelayTimerFires

\* the event loop runs every pending callback and delivers an expired timer
RunnerSpec ==
  /\ Init
  /\ [][RunnerNext]_vars
  /\ WF_vars(Callback)
  /\ WF_vars(DelayTimerFires)

--------------------------------------------------------------------------
(* Vocabulary of the properties *)

IsPrefix(a, b) == Len(a) <= Len(b) /\ SubSeq(b, 1, Len(a)) = a

\* the emissions of the last handler on one signal
EmittedOn(em, sig) == {i \in 1..Len(em) : em[i].sig = sig}

\* the written command n stopped being awaited
IsResolved(n) == \E j \in 1..Len(resolved) : resolved[j].n = n

\* (n, command, com_id) of a history record or queue entry
Key(r) == <<r.n, r.command, r.com_id>>

Keys(seq) == [i \in 1..Len(seq) |-> Key(seq[i])]

\* submitted while connected and not cut off by a disconnect since: the
\* submissions of the current connection
OfConnection(r) == r.conn /\ ~r.cut

--------------------------------------------------------------------------
\* C1: single-flight. Every written command but the last has been resolved
\* (by a matching ack, a timeout or a disconnect) before the next one was
\* written; the last written command is the only one that can be awaited,
\* and it is awaited exactly when waiting_for_com_id is set, under its id.
C1_SingleFlight ==
  /\ \A i \in 1..(Len(written) - 1) : IsResolved(written[i].n)
  /\ \A j \in 1..Len(resolved) : resolved[j].how \in {"ack", "timeout", "disconnect"}
  /\ waiting_for_com_id # None =>
       /\ written # <<>>
       /\ ~IsResolved(Last(written).n)
       /\ waiting_for_com_id = Last(written).com_id
  /\ waiting_for_com_id = None =>
       \A i \in 1..Len(written) : IsResolved(written[i].n)

\* a second command is awaited while a third waits in the queue
C1_Witness ==
  /\ Len(written) >= 2
  /\ waiting_for_com_id # None
  /\ command_queue # <<>>

\* C2: FIFO order. The commands written during a connection are, in order,
\* a prefix of the commands submitted during that connection.
C2_FifoOrder ==
  IsPrefix(Keys(SelectSeq(written, LAMBDA w : ~submitted[w.n].cut)),
           Keys(SelectSeq(submitted, OfConnection)))

\* a submit handled between a matching ack and the deferred _process_queue
\* call wrote the older head of the queue, not the command just submitted
C2_Witness ==
  /\ op = "submit_command"
  /\ pending_calls > 0
  /\ Len(written) >= 2
  /\ \E i \in EmittedOn(emitted, "mcu.write") :
       emitted[i].payload.n < Len(submitted)
  /\ command_queue # <<>>

\* C3: at-most-once delivery. Every write is of a submitted command, no
\* submitted command is written twice, and no written command (a timed-out
\* one in particular) is in the pending queue again.
C3_AtMostOnce ==
  /\ \A i \in 1..Len(written) :
       /\ written[i].n \in 1..Len(submitted)
       /\ Key(written[i]) = Key(submitted[written[i].n])
  /\ \A i, j \in 1..Len(written) : written[i].n = written[j].n => i = j
  /\ \A k \in 1..Len(command_queue) :
       \A i \in 1..Len(written) : command_queue[k].n # written[i].n
  /\ \A j \in 1..Len(resolved) :
       resolved[j].how = "timeout" =>
         Cardinality({i \in 1..Len(written) : written[i].n = resolved[j].n}) = 1

\* a command timed out and a later command was written after it
C3_Witness ==
  \E j \in 1..Len(resolved) :
    /\ resolved[j].how = "timeout"
    /\ \E i \in 1..Len(written) : written[i].n > resolved[j].n

--------------------------------------------------------------------------
(* Steps, told by the handler that ran and by what went in and came out *)

\* read_message handled an ack carrying the id awaited before the step
AckMatchedStep ==
  /\ op' = "read_message"
  /\ waiting_for_com_id # None
  /\ \E i \in EmittedOn(emitted', "ack_received") :
       emitted'[i].payload[1] = waiting_for_com_id

\* read_message handled acks, none of them carrying the id awaited before
\* the step (when nothing was awaited, every ack is such an ack)
AckMismatchedStep ==
  /\ op' = "read_message"
  /\ EmittedOn(emitted', "ack_received") # {}
  /\ \A i \in EmittedOn(emitted', "ack_received") :
       emitted'[i].payload[1] # waiting_for_com_id

\* read_message handled error frames and no ack
ErrorOnlyStep ==
  /\ op' = "read_message"
  /\ EmittedOn(emitted', "error_received") # {}
  /\ EmittedOn(emitted', "ack_received") = {}

\* the ack timer expired while a command was awaited
TimeoutStep ==
  /\ op' = "_handle_ack_timeout"
  /\ waiting_for_com_id # None

\* the step wrote exactly the head of the queue, which is now awaited
\* under a running timer
HeadSent ==
  /\ Keys(written') = Keys(written) \o <<Key(Head(command_queue))>>
  /\ command_queue' = Tail(command_queue)
  /\ waiting_for_com_id' = Head(command_queue).com_id
  /\ ack_timer' = "active"

--------------------------------------------------------------------------
\* C4 as claimed: once a matching ack has left the scheduler idle with a
\* non-empty queue, the head is written and awaited before any other event
\* is handled: the only handler that runs in such a state is the
\* _process_queue call that sends the head.
C4_AckSendsNextAtOnce ==
  [][(connected /\ waiting_for_com_id = None /\ command_queue # <<>>) =>
       (op' = "_process_queue" /\ HeadSent)]_vars

\* C4 as amended: the step that handles a matching ack stops the timer,
\* leaves the scheduler idle and schedules one deferred _process_queue call
\* without writing or dequeuing anything; while connected and idle with a
\* non-empty queue such a call is always pending; and a deferred call that
\* finds the scheduler idle with a non-empty queue writes the head and
\* awaits it.
C4_AckDefersNext ==
  /\ [][AckMatchedStep =>
          /\ ack_timer' = "inactive"
          /\ waiting_for_com_id' = None
          /\ written' = written
          /\ command_queue' = command_queue
          /\ pending_calls' = pending_calls + 1]_vars
  /\ [](connected /\ waiting_for_com_id = None /\ command_queue # <<>>
          => pending_calls > 0)
  /\ [][(op' = "_process_queue" /\ waiting_for_com_id = None
          /\ command_queue # <<>>) => HeadSent]_vars

\* a matching ack was just handled while a command waits in the queue
C4_Witness ==
  /\ op = "read_message"
  /\ EmittedOn(emitted, "ack_received") # {}
  /\ resolved # <<>> /\ Last(resolved).how = "ack"
  /\ waiting_for_com_id = None
  /\ command_queue # <<>>
  /\ pending_calls > 0

\* C5: a read whose acks all mismatch the awaited id (or arrive while
\* nothing is awaited) leaves the awaited id, the timer, the queue and the
\* deferred calls as they were and writes nothing.
C5_MismatchedAckIgnored ==
  [][AckMismatchedStep =>
       /\ waiting_for_com_id' = waiting_for_com_id
       /\ ack_timer' = ack_timer
       /\ command_queue' = command_queue
       /\ pending_calls' = pending_calls
       /\ written' = written
       /\ EmittedOn(emitted', "mcu.write") = {}]_vars

\* an ack with another id was just handled while a command is awaited
C5_Witness ==
  /\ op = "read_message"
  /\ waiting_for_com_id # None
  /\ ack_timer = "active"
  /\ EmittedOn(emitted, "ack_received") # {}
  /\ \A i \in EmittedOn(emitted, "ack_received") :
       emitted[i].payload[1] # waiting_for_com_id

\* C6: the timeout step logs a timeout for the awaited id first; with a
\* non-empty queue it writes the head, awaits it and starts the timer anew,
\* with an empty queue it leaves the scheduler idle and writes nothing.
C6_TimeoutEviction ==
  [][TimeoutStep =>
       /\ Len(emitted') >= 1
       /\ emitted'[1].sig = "log_signal"
       /\ emitted'[1].kind = "timeout"
       /\ emitted'[1].payload = waiting_for_com_id
       /\ IF command_queue # <<>> THEN HeadSent
          ELSE /\ waiting_for_com_id' = None
               /\ ack_timer' = "inactive"
               /\ written' = written
               /\ Len(emitted') = 1]_vars

\* a timeout was just logged and the next command was written in that step
C6_Witness ==
  /\ op = "_handle_ack_timeout"
  /\ Len(emitted) = 2
  /\ emitted[1].kind = "timeout"
  /\ emitted[2].sig = "mcu.write"
  /\ waiting_for_com_id # None

\* C7: a submit handled while not connected leaves one "dropped" log entry
\* for its id and not the command in the queue; no command submitted while
\* not connected is ever in the queue or written.
C7_SubmitWhileDisconnected ==
  /\ (op = "submit_command" /\ ~Last(submitted).conn) =>
       /\ Len(emitted) = 1
       /\ emitted[1].sig = "log_signal"
       /\ emitted[1].kind = "dropped"
       /\ emitted[1].payload = Last(submitted).com_id
  /\ \A k \in 1..Len(command_queue) : submitted[command_queue[k].n].conn
  /\ \A i \in 1..Len(written) : submitted[written[i].n].conn

\* a command was dropped while disconnected, and after a connect a later
\* command was written
C7_Witness ==
  \E k \in 1..Len(submitted) :
    /\ ~submitted[k].conn
    /\ \E i \in 1..Len(written) : written[i].n > k

\* C8: a read that handled error frames and no ack leaves the awaited id,
\* the timer, the queue and the deferred calls as they were and writes
\* nothing; the awaited id is cleared only by a step that handled a
\* matching ack, by the timeout handler or by disconnect_mcu.
C8_ErrorNeverReleases ==
  [][/\ ErrorOnlyStep =>
          /\ waiting_for_com_id' = waiting_for_com_id
          /\ ack_timer' = ack_timer
          /\ command_queue' = command_queue
          /\ pending_calls' = pending_calls
          /\ written' = written
     /\ (waiting_for_com_id # None /\ waiting_for_com_id' = None) =>
          \/ AckMatchedStep
          \/ op' = "_handle_ack_timeout"
          \/ op' = "disconnect_mcu"]_vars

\* an error frame carrying the awaited id was just handled and the command
\* is still awaited
C8_Witness ==
  /\ op = "read_message"
  /\ waiting_for_com_id # None
  /\ ack_timer = "active"
  /\ \E i \in EmittedOn(emitted, "error_received") :
       emitted[i].payload[1] = waiting_for_com_id

\* C9: right after disconnect_mcu the queue is empty, nothing is awaited
\* and the timer is not running; no write is of a command submitted before
\* a disconnect that came before the write; a command that was awaited at
\* a disconnect is resolved by it alone (no timeout is logged for it).
C9_DisconnectResets ==
  /\ op = "disconnect_mcu" =>
       /\ command_queue = <<>>
       /\ waiting_for_com_id = None
       /\ ack_timer # "active"
  /\ \A i \in 1..Len(written) : ~written[i].cut
  /\ \A j, k \in 1..Len(resolved) :
       (resolved[j].how = "disconnect" /\ resolved[k].n = resolved[j].n) => j = k

\* a disconnect cut off an awaited command and a queued one, and after a
\* reconnect a later command was written
C9_Witness ==
  /\ \E j \in 1..Len(resolved) : resolved[j].how = "disconnect"
  /\ \E k \in 1..Len(submitted) :
       /\ submitted[k].conn /\ submitted[k].cut
       /\ \A i \in 1..Len(written) : written[i].n # k
       /\ \E i \in 1..Len(written) : written[i].n > k

\* C10: no message sliced off the buffer holds a byte received before the
\* last disconnect, and no such byte waits in the buffer.
C10_NoPartialFrameAcrossDisconnect ==
  /\ \A i \in 1..Len(frames) : ~frames[i].stale
  /\ stale = 0

\* a disconnect dropped buffered bytes, and a read after the reconnect
\* delivered a frame
C10_Witness ==
  /\ lost_partial
  /\ op = "read_message"
  /\ frames # <<>>

--------------------------------------------------------------------------
\* the protocol state a connection starts from
Fresh ==
  /\ command_queue = <<>>
  /\ waiting_for_com_id = None
  /\ ack_timer # "active"
  /\ serial_buffer = <<>>

\* C11: whenever the worker is not connected the queue is empty, nothing is
\* awaited, the timer is not running and the receive buffer is empty; so
\* every connect_mcu starts from that state, and connect_mcu itself leaves
\* the queue, the awaited id and the buffer as it found them.
C11_FreshWhenDisconnected ==
  /\ [](~connected => Fresh)
  /\ [][op' = "connect_mcu" =>
          /\ Fresh
          /\ command_queue' = command_queue
          /\ waiting_for_com_id' = waiting_for_com_id
          /\ serial_buffer' = serial_buffer
          /\ ack_timer' = "inactive"]_vars

\* a connection that wrote commands and buffered bytes was closed, and
\* connect_mcu has just opened the next one
C11_Witness ==
  /\ op = "connect_mcu"
  /\ connected
  /\ written # <<>>
  /\ lost_partial
  /\ \E k \in 1..Len(submitted) : submitted[k].conn /\ submitted[k].cut

--------------------------------------------------------------------------
\* read_message handed the whole of a stream in one chunk, on a connection
\* that has read nothing yet
WholeStream(stream) == read_message(Connected, stream)

\* C12: however the port has cut the bytes received so far into chunks,
\* the emissions of all the reads together, in order, are the emissions of
\* one read_message handed those bytes in one chunk, and the same bytes are
\* left in the buffer.
C12_ChunkingIndependence ==
  /\ dispatched = WholeStream(received).emitted
  /\ serial_buffer = WholeStream(received).serial_buffer

\* after an earlier message was dispatched, a read has returned with the
\* ';' of a delimiter while its '\n' is still to arrive
C12_Witness ==
  /\ op = "read_message"
  /\ dispatched # <<>>
  /\ serial_buffer # <<>> /\ Last(serial_buffer) = ";"
  /\ wire # <<>> /\ Head(wire) = "\n"

--------------------------------------------------------------------------
(* Messages by their text, whatever parse makes of them *)

\* the fields of a message that starts with the header
FieldsOf(message, header) == Split(DropFirst(Strip(message), Len(header)))

\* a field that is no number: empty, or holding a byte that is neither a
\* digit nor the decimal point
NonNumeric(field) ==
  field = <<>> \/ \E i \in 1..Len(field) : field[i] \notin Digits \cup {"."}

\* a telemetry message with a non-numeric field where a number is expected:
\* any field of $FLOW, and $TEMP,, one of the three fields of $DO,
Malformed(message) ==
  \E header \in {FLOW, TEMP, DO} :
    /\ StartsWith(Strip(message), header)
    /\ \E k \in 1..Len(FieldsOf(message, header)) :
         /\ header = DO => k <= 3
         /\ NonNumeric(FieldsOf(message, header)[k])

RECURSIVE Flatten(_)
Flatten(seqs) == IF seqs = <<>> THEN <<>> ELSE Head(seqs) \o Flatten(Tail(seqs))

IsDiagnostic(e) == e.kind = "parse_error"

\* C13: every malformed message sliced off the buffer has produced one
\* diagnostic on log_signal that carries its raw bytes, and nothing else;
\* all other emissions are those of the same stream without the malformed
\* messages; and a read that slices off an ack for the awaited id releases
\* the awaited command, whatever malformed messages the read held.
C13_MalformedFrameResilience ==
  /\ [](LET bad  == {i \in 1..Len(extracted) : Malformed(extracted[i])}
            diag == {j \in 1..Len(dispatched) : IsDiagnostic(dispatched[j])}
        IN  /\ Cardinality(diag) = Cardinality(bad)
            /\ \A j \in diag :
                 /\ dispatched[j].sig = "log_signal"
                 /\ Malformed(dispatched[j].payload)
            /\ SelectSeq(dispatched, LAMBDA e : ~IsDiagnostic(e)) =
                 WholeStream(Flatten(SelectSeq(extracted,
                                               LAMBDA m : ~Malformed(m)))).emitted)
  /\ [][(/\ op' = "read_message"
         /\ waiting_for_com_id # None
         /\ \E i \in 1..Len(frames') :
              Strip(frames'[i].bytes) = OK \o waiting_for_com_id) =>
          /\ waiting_for_com_id' = None
          /\ ack_timer' = "inactive"
          /\ Last(resolved').how = "ack"
          /\ Len(resolved') = Len(resolved) + 1]_vars

\* one read held a malformed $FLOW, message and then the ack of the awaited
\* command: a diagnostic was logged and the command was released
C13_Witness ==
  /\ op = "read_message"
  /\ Len(frames) = 2
  /\ Malformed(frames[1].bytes)
  /\ Strip(frames[2].bytes) = OK \o Id1
  /\ Len(emitted) = 2
  /\ IsDiagnostic(emitted[1])
  /\ emitted[2].sig = "ack_received"
  /\ resolved # <<>> /\ Last(resolved).how = "ack"
  /\ waiting_for_com_id = None

--------------------------------------------------------------------------
\* the diagnostic of the message: its raw bytes on log_signal
IsDiagnosticOf(e, message) ==
  e.sig = "log_signal" /\ IsDiagnostic(e) /\ e.payload = message

HasHeader(message, header) == StartsWith(Strip(message), header)

\* a $FLOW, message whose fields after the timestamp are not whole pairs, or
\* a $TEMP, message whose fields after the timestamp are not whole triples
WrongFieldCount(message) ==
  \/ HasHeader(message, FLOW) /\ (Len(FieldsOf(message, FLOW)) - 1) % 2 # 0
  \/ HasHeader(message, TEMP) /\ (Len(FieldsOf(message, TEMP)) - 1) % 3 # 0

\* C14 as claimed: a $FLOW, or $TEMP, message with a wrong field count is
\* reported by a diagnostic and no flow or temperature sample is emitted.
\* (ParseSpec sends one message on the connection.)
C14_WrongFieldCountReported ==
  \A i \in 1..Len(extracted) :
    WrongFieldCount(extracted[i]) =>
      /\ \E j \in 1..Len(dispatched) : IsDiagnosticOf(dispatched[j], extracted[i])
      /\ \A j \in 1..Len(dispatched) :
           dispatched[j].sig \notin {"flow_data_received", "temp_data_received"}

\* C15 as claimed: a $DO, message that has not exactly three fields is
\* reported by a diagnostic and no DO sample is emitted.
C15_DoExactlyThreeFields ==
  \A i \in 1..Len(extracted) :
    (HasHeader(extracted[i], DO) /\ Len(FieldsOf(extracted[i], DO)) # 3) =>
      /\ \E j \in 1..Len(dispatched) : IsDiagnosticOf(dispatched[j], extracted[i])
      /\ \A j \in 1..Len(dispatched) : dispatched[j].sig # "do_data_received"

--------------------------------------------------------------------------
\* the emission is the classification of the message by the header its
\* trimmed text starts with: the header's own signal (for a telemetry
\* header, that or the diagnostic of a failed conversion), and log_signal
\* with the trimmed text when it starts with no header
Classified(message, e) ==
  LET text == Strip(message)
  IN  IF StartsWith(text, FLOW) THEN
        e.sig = "flow_data_received" \/ IsDiagnosticOf(e, message)
      ELSE IF StartsWith(text, TEMP) THEN
        e.sig = "temp_data_received" \/ IsDiagnosticOf(e, message)
      ELSE IF StartsWith(text, DO) THEN
        e.sig = "do_data_received" \/ IsDiagnosticOf(e, message)
      ELSE IF StartsWith(text, OK) THEN
        e.sig = "ack_received" /\ e.payload = FieldsOf(message, OK)
      ELSE IF StartsWith(text, ERROR) THEN
        e.sig = "error_received" /\ e.payload = FieldsOf(message, ERROR)
      ELSE e.sig = "log_signal" /\ e.kind = "info" /\ e.payload = text

\* one emission for each of the messages, in order, each its classification
ClassifiedOnce(messages) ==
  /\ Len(dispatched) = Len(messages)
  /\ \A i \in 1..Len(messages) : Classified(messages[i], dispatched[i])

\* C16 as claimed: every message sliced off the buffer has produced exactly
\* one emission, its classification; a message whose text is empty is
\* emitted on log_signal with the empty text.
C16_EveryFrameClassifiedOnce == ClassifiedOnce(extracted)

\* C16 as amended: every message sliced off the buffer whose trimmed text
\* is not empty has produced exactly one emission, its classification; a
\* message whose trimmed text is empty has produced none.
C16_NonEmptyFrameClassifiedOnce ==
  ClassifiedOnce(SelectSeq(extracted, LAMBDA m : Strip(m) # <<>>))

\* a message with empty text and an ack were sliced off, and the ack alone
\* was emitted
C16_Witness ==
  /\ Len(extracted) = 2
  /\ Strip(extracted[1]) = <<>>
  /\ Strip(extracted[2]) = OK \o Id1
  /\ Len(dispatched) = 1
  /\ dispatched[1].sig = "ack_received"

--------------------------------------------------------------------------
IsTelemetry(e) ==
  e.sig \in {"flow_data_received", "temp_data_received", "do_data_received"}

TelemetryHeader(message) ==
  CHOOSE header \in {FLOW, TEMP, DO} : HasHeader(message, header)

\* a telemetry message of the stream that is dispatched as a sample
Sampled(message) ==
  /\ \E header \in {FLOW, TEMP, DO} : HasHeader(message, header)
  /\ ~Malformed(message)

\* what tells one sample from another: its signal, its timestamp and the
\* number of its fields
TagOfMessage(message) ==
  LET header == TelemetryHeader(message)
      fields == FieldsOf(message, header)
  IN  <<CASE header = FLOW -> "flow_data_received"
          [] header = TEMP -> "temp_data_received"
          [] header = DO   -> "do_data_received",
        DecVal(fields[1]), Len(fields)>>

TagOfEmission(e) == <<e.sig, e.payload[1].num, Len(e.payload)>>

Tags(seq, Tag(_)) == [i \in 1..Len(seq) |-> Tag(seq[i])]

\* C17: the samples dispatched so far are, in order, the telemetry messages
\* sliced off the buffer so far, in the order of their delimiters in the
\* stream, whatever acks, errors, log lines and malformed messages came
\* between them and however the stream was cut into reads.
C17_TelemetryOrder ==
  /\ Tags(SelectSeq(dispatched, IsTelemetry), TagOfEmission) =
       Tags(SelectSeq(extracted, Sampled), TagOfMessage)
  /\ IsPrefix(Flatten(extracted), received)

\* a $FLOW, sample, then a log line, then a $TEMP, sample were dispatched
\* in that order, the last two in a later read than the first
C17_Witness ==
  /\ op = "read_message"
  /\ Len(dispatched) = 3
  /\ dispatched[1].sig = "flow_data_received"
  /\ dispatched[2].sig = "log_signal"
  /\ dispatched[3].sig = "temp_data_received"
  /\ Len(emitted) = 2

--------------------------------------------------------------------------
\* read_message sliced off messages, none of them an ack or an error
TelemetryOnlyStep ==
  /\ op' = "read_message"
  /\ frames' # <<>>
  /\ \A i \in 1..Len(frames') :
       /\ ~HasHeader(frames'[i].bytes, OK)
       /\ ~HasHeader(frames'[i].bytes, ERROR)

\* C18: a read whose messages are all telemetry or log lines leaves the
\* queue, the awaited id, the timer and the deferred calls as they were and
\* writes nothing, whether a command is awaited or not.
C18_TelemetryBypassesScheduler ==
  [][TelemetryOnlyStep =>
       /\ command_queue' = command_queue
       /\ waiting_for_com_id' = waiting_for_com_id
       /\ ack_timer' = ack_timer
       /\ pending_calls' = pending_calls
       /\ written' = written
       /\ resolved' = resolved
       /\ EmittedOn(emitted', "mcu.write") = {}]_vars

\* a read delivered a sample while a command is awaited under a running
\* timer
C18_Witness ==
  /\ op = "read_message"
  /\ EmittedOn(emitted, "flow_data_received") # {}
  /\ EmittedOn(emitted, "ack_received") = {}
  /\ waiting_for_com_id # None
  /\ ack_timer = "active"
  /\ command_queue # <<>>

--------------------------------------------------------------------------
\* the positions of the byte string at which a delimiter starts
DelimitersIn(bytes) ==
  {i \in 1..(Len(bytes) - 1) : bytes[i] = ";" /\ bytes[i + 1] = "\n"}

\* C19: when read_message has returned, the buffer holds no delimiter; the
\* messages sliced off so far, each ending with the only delimiter in it,
\* followed by the buffer are exactly the bytes received so far, so the
\* buffer is what was received after the last message sliced off.
C19_ReceiveBufferInvariant ==
  /\ DelimitersIn(serial_buffer) = {}
  /\ \A i \in 1..Len(extracted) :
       DelimitersIn(extracted[i]) = {Len(extracted[i]) - 1}
  /\ Flatten(extracted) \o serial_buffer = received

\* a read sliced off two messages and left the start of a third in the
\* buffer
C19_Witness ==
  /\ op = "read_message"
  /\ Len(frames) = 2
  /\ Len(extracted) = 2
  /\ serial_buffer # <<>>
  /\ wire # <<>>

--------------------------------------------------------------------------
\* C20: the id returned by the k-th call of an encoder is k in decimal,
\* padded with zeros on the left to four digits (and not padded when k has
\* four digits or more), whatever the base command and the arguments of
\* this call and of the calls before it; so consecutive ids differ by 1 and
\* the first is 0001.
C20_IdsCountUpFromOne ==
  \A p \in Producers :
    IF calls[p] = 0 THEN encoded = NotEncoded
    ELSE /\ encoded.by = p
         /\ IsInt(encoded.com_id)
         /\ DecVal(encoded.com_id) = calls[p]
         /\ Len(encoded.com_id) >= IdWidth
         /\ Len(encoded.com_id) > IdWidth => encoded.com_id[1] # "0"
         /\ calls[p] = 1 => encoded.com_id = Id1

\* the hundredth call, of a command without arguments, returned 0100
C20_Witness ==
  /\ calls["temp"] = 100
  /\ encoded.com_id = <<"0", "1", "0", "0">>
  /\ StartsWith(encoded.command, SubSeq(DO_INFO, 1, Len(DO_INFO) - 1) \o <<",", "0">>)

--------------------------------------------------------------------------
\* read_message was handed one $OK, message while a command was outstanding
AckOfOutstandingStep ==
  /\ op' = "read_message"
  /\ waiting_for_com_id # None
  /\ Len(frames') = 1
  /\ HasHeader(frames'[1].bytes, OK)

\* C21: the $OK, message the MCU builds from the line written last, with
\* or without a field after the id, is emitted as one ack whose first field
\* is the id _format_command returned with that line; it releases that
\* command and no other: the command is resolved by the ack, nothing is
\* awaited, the timer is stopped, the queue is as it was.
C21_EncodeAckRoundTrip ==
  [][AckOfOutstandingStep =>
       /\ Len(emitted') = 1
       /\ emitted'[1].sig = "ack_received"
       /\ emitted'[1].payload[1] = waiting_for_com_id
       /\ emitted'[1].payload[1] = submitted[Last(written).n].com_id
       /\ waiting_for_com_id' = None
       /\ ack_timer' = "inactive"
       /\ resolved' = Append(resolved, [n |-> Last(written).n,
                                        com_id |-> waiting_for_com_id,
                                        how |-> "ack"])
       /\ command_queue' = command_queue
       /\ written' = written]_vars

\* the second command written, one without arguments, was released by an
\* ack that carried a field after the id, while a third command is queued
C21_Witness ==
  /\ op = "read_message"
  /\ Len(written) = 2
  /\ StartsWith(Last(written).command, SubSeq(DO_INFO, 1, Len(DO_INFO) - 1) \o <<",", "0">>)
  /\ Len(emitted) = 1
  /\ emitted[1].sig = "ack_received"
  /\ Len(emitted[1].payload) = 2
  /\ Len(resolved) = 2
  /\ Last(resolved) = [n |-> 2, com_id |-> Id2, how |-> "ack"]
  /\ command_queue # <<>>

--------------------------------------------------------------------------
\* a non-negative int as str() writes it: digits, no leading zero but for 0
IsStrOf(text, n) ==
  /\ IsInt(text)
  /\ DecVal(text) = n
  /\ Len(text) > 1 => text[1] # "0"

\* C22: the line returned by _format_command(base_command, args) ends with
\* the delimiter, which occurs nowhere else in it; split at its commas, the
\* rest is the fields of the base name (base_command without its trailing
\* comma), then one field for each argument, then the id returned with the
\* line, then the literal 1; no field is empty.
C22_WireFormat ==
  encoded # NotEncoded =>
    LET line   == encoded.command
        body   == SubSeq(line, 1, Len(line) - 2)
        fields == Split(body)
        name   == Split(SubSeq(encoded.base_command, 1, Len(encoded.base_command) - 1))
        nargs  == Len(encoded.args)
    IN  /\ DelimitersIn(line) = {Len(line) - 1}
        /\ \A i \in 1..Len(body) : body[i] \notin {";", "\n"}
        /\ Len(fields) = Len(name) + nargs + 2
        /\ SubSeq(fields, 1, Len(name)) = name
        /\ \A i \in 1..nargs : IsStrOf(fields[Len(name) + i], encoded.args[i])
        /\ fields[Len(fields) - 1] = encoded.com_id
        /\ fields[Len(fields)] = <<"1">>
        /\ \A i \in 1..Len(fields) : fields[i] # <<>>

\* a command without arguments and a command with two arguments have been
\* encoded, the latter just now
C22_Witness ==
  /\ calls["temp"] = 12
  /\ encoded.base_command = TEMP_SET_TEMP
  /\ encoded.args = <<2, 37>>
  /\ encoded.com_id = <<"0", "0", "1", "2">>

--------------------------------------------------------------------------
\* what the clock and the histories show so far of commands that were never
\* acknowledged
UnansweredSoFar ==
  LET awaited == IF waiting_for_com_id # None THEN 1 ELSE 0
  IN  /\ Len(written) <= Len(submitted)
      /\ \A i \in 1..Len(written) :
           /\ written[i].n = i
           /\ written[i].command = submitted[i].command
           /\ written[i].com_id = submitted[i].com_id
      /\ Len(write_gaps) = (IF written = <<>> THEN 0 ELSE Len(written) - 1)
      /\ \A i \in 1..Len(write_gaps) : write_gaps[i] >= ack_timeout
      /\ Len(timeout_log) = Len(written) - awaited
      /\ \A i \in 1..Len(timeout_log) : timeout_log[i] = written[i].com_id

\* C23: when commands are submitted while connected and no ack ever arrives,
\* the writes are the submitted commands in submission order, every write
\* after the first comes at least ack_timeout (500 ms) after the write before
\* it, the timeout log entries name the ids of the written commands in
\* order, and in the end there are as many writes and as many timeout log
\* entries as commands submitted.
C23_NoAcksAtAll ==
  /\ []UnansweredSoFar
  /\ <>[](/\ Len(written) = Len(submitted)
          /\ Len(timeout_log) = Len(submitted))

\* three commands were written and timed out, the second written exactly
\* ack_timeout after the first
C23_Witness ==
  /\ Len(submitted) = MaxSubmits
  /\ Len(written) = Len(submitted)
  /\ Len(timeout_log) = Len(submitted)
  /\ write_gaps[1] = ack_timeout
  /\ written[1].com_id = Id1
  /\ timeout_log[Len(timeout_log)] = written[Len(written)].com_id
  /\ op = "_handle_ack_timeout"
  /\ command_queue = <<>>

--------------------------------------------------------------------------
\* C24: every command method of the flow, temperature and DO threads gets
\* a pair (line, id) from its encoder and emits exactly one mcu_signal,
\* carrying that line and the id that is in it; none ends without one.
C24_EveryProducerSubmitsPair ==
  produced.by # "nobody" =>
    /\ produced.returned.type = "tuple"
    /\ produced.raised = ""
    /\ Len(produced.mcu_signal) = 1
    /\ produced.mcu_signal[1] = produced.returned.items
    /\ McuReadsId(produced.mcu_signal[1][1]) = produced.mcu_signal[1][2]

--------------------------------------------------------------------------
\* C26: after any sequence of set_flow calls, the rate of every pump that
\* set_flow was called for is the rate passed to the last such call, and a
\* set_flow call leaves the rates of the other pumps as they were.
C26_SetFlowRecordsRate ==
  /\ [](\A n \in DOMAIN pumps :
          requested[n] # NoCall => pumps[n].rate = requested[n])
  /\ [][\A n \in DOMAIN pumps :
          n # arduino_signal'.pump_num => pumps'[n].rate = pumps[n].rate]_vars

--------------------------------------------------------------------------
\* submit_command ran while a command was outstanding
SubmitWhileAwaitingStep ==
  /\ op' = "submit_command"
  /\ Len(submitted') = Len(submitted) + 1
  /\ waiting_for_com_id # None

\* C27: a submit_command while a command is outstanding appends the
\* submitted command at the tail of command_queue and does nothing else: it
\* writes nothing, the awaited id stays, and the ack_timer keeps running
\* with the time it had left.
C27_SubmitWhileAwaitingOnlyEnqueues ==
  [][SubmitWhileAwaitingStep =>
       /\ Len(command_queue') = Len(command_queue) + 1
       /\ SubSeq(command_queue', 1, Len(command_queue)) = command_queue
       /\ Key(Last(command_queue')) = Key(Last(submitted'))
       /\ emitted' = <<>>
       /\ written' = written
       /\ waiting_for_com_id' = waiting_for_com_id
       /\ ack_timer' = ack_timer
       /\ ack_timer' = "active"
       /\ timer_left' = timer_left
       /\ write_gaps' = write_gaps]_vars

\* a third command was submitted half a timeout after the first was
\* written, behind the second in the queue
C27_Witness ==
  /\ op = "submit_command"
  /\ Len(submitted) = 3
  /\ Len(written) = 1
  /\ Len(command_queue) = 2
  /\ command_queue[2].n = 3
  /\ waiting_for_com_id = Id1
  /\ 0 < timer_left
  /\ timer_left < ack_timeout

--------------------------------------------------------------------------
\* C28: one submit_command, one read_message (whatever it received) or one
\* ack timeout hands at most one command to self.mcu.write.
C28_AtMostOneWritePerEvent ==
  [][op' \in {"submit_command", "read_message", "_handle_ack_timeout"} =>
       /\ Cardinality(EmittedOn(emitted', "mcu.write")) <= 1
       /\ Len(written') <= Len(written) + 1
       /\ Len(written') = Len(written) + Cardinality(EmittedOn(emitted', "mcu.write"))]_vars

\* one read_message handled two acks, the first of them matching, with two
\* more commands queued, and wrote nothing
C28_Witness ==
  /\ op = "read_message"
  /\ Cardinality(EmittedOn(emitted, "ack_received")) = 2
  /\ Len(resolved) = 1
  /\ Len(command_queue) = 2
  /\ EmittedOn(emitted, "mcu.write") = {}

--------------------------------------------------------------------------
\* the $OK, messages among those a read_message sliced off, in order
OkMessages(sliced) ==
  LET IsOk(f) == HasHeader(f.bytes, OK)
      oks == SelectSeq(sliced, IsOk)
  IN  [i \in 1..Len(oks) |-> oks[i].bytes]

\* the ack_received emissions of a handler, in order
AcksReceived(em) ==
  LET IsAck(e) == e.sig = "ack_received"
  IN  SelectSeq(em, IsAck)

\* C29: read_message emits ack_received once for every $OK, message it
\* slices off, in order and with the fields of that message, whether a
\* command is awaited or not and whatever id the message carries; no other
\* handler emits ack_received.
C29_AckFanOut ==
  [][IF op' = "read_message"
     THEN LET oks  == OkMessages(frames')
              acks == AcksReceived(emitted')
          IN  /\ Len(acks) = Len(oks)
              /\ \A i \in 1..Len(oks) :
                   acks[i].payload = FieldsOf(oks[i], OK)
     ELSE AcksReceived(emitted') = <<>>]_vars

\* one read delivered the ack of the awaited command and, after it, an ack
\* with another id that found the scheduler idle
C29_Witness ==
  /\ op = "read_message"
  /\ Len(written) = 1
  /\ resolved = <<[n |-> 1, com_id |-> Id1, how |-> "ack"]>>
  /\ Len(AcksReceived(emitted)) = 2
  /\ AcksReceived(emitted)[1].payload = <<Id1>>
  /\ AcksReceived(emitted)[2].payload = <<Id2>>
  /\ waiting_for_com_id = None

--------------------------------------------------------------------------
\* the number an id spells; 0 before the first call
IdNumber(e) == IF e = NotEncoded THEN 0 ELSE DecVal(e.com_id)

\* C30: every id an encoder issues is a decimal numeral that spells a larger
\* number than the id it issued before, so no id is issued twice; from the
\* call after the 9999th on the id has more than four digits and does not
\* start with 0.
C30_IdCounterNeverWraps ==
  [][\A p \in Producers :
       calls'[p] # calls[p] =>
         /\ encoded'.by = p
         /\ IsInt(encoded'.com_id)
         /\ IdNumber(encoded') > IdNumber(encoded)
         /\ encoded'.com_id # encoded.com_id
         /\ calls'[p] >= Pow10(IdWidth) =>
              /\ Len(encoded'.com_id) > IdWidth
              /\ encoded'.com_id[1] # "0"]_vars

\* the call after the 9999th returned 10000
C30_Witness ==
  /\ calls["temp"] = Pow10(IdWidth)
  /\ encoded.com_id = <<"1", "0", "0", "0", "0">>
  /\ com_id_counter["temp"] = Pow10(IdWidth)

--------------------------------------------------------------------------
\* C31: between handlers the ack_timer runs exactly when a command is
\* awaited: no command is awaited without a running timer, and no timer
\* runs with nothing awaited (before the first connect_mcu there is no timer
\* and nothing is awaited).
C31_TimerAgreesWithAwaited ==
  /\ (ack_timer = "active") <=> (waiting_for_com_id # None)
  /\ ack_timer = "None" => ~connected /\ written = <<>>

\* the timeout handler gave up the first command and wrote the second,
\* which is awaited with the timer running again
C31_Witness ==
  /\ op = "_handle_ack_timeout"
  /\ Len(resolved) = 1
  /\ resolved[1].how = "timeout"
  /\ waiting_for_com_id = Id2
  /\ ack_timer = "active"

--------------------------------------------------------------------------
\* C32: an ack the MCU sends for a written command releases that command
\* or none: when read_message handles the MCU's ack for the k-th written
\* command and a command stops being awaited, it is the k-th written
\* command, whichever threads submitted the commands.
C32_LateAckReleasesNoOther ==
  [][op' = "read_message" /\ Len(resolved') > Len(resolved) =>
       /\ Last(resolved').how = "ack"
       /\ Last(resolved').n = written[ack_for'].n]_vars

--------------------------------------------------------------------------
\* the entries of the runner's log at which a step of the sequence was
\* taken up: a delay armed, a signal emitted, an unknown type logged, or a
\* step that lacked a parameter
StepEntries(log) ==
  {j \in 1..Len(log) : log[j].ev \in {"delay", "signal", "unknown", "step_failed"}}

\* the last delay step taken up before entry j (0 if none)
LastDelayBefore(log, j) ==
  LET earlier == {d \in 1..(j - 1) : log[d].ev = "delay"}
  IN  IF earlier = {} THEN 0 ELSE CHOOSE d \in earlier : \A e \in earlier : e <= d

\* C35: a step that follows a delay step in the sequence is taken up only
\* by the delay_timer's timeout, and the timer was last armed by that delay
\* step of the same run.
C35_DelaysHonoured ==
  \A j \in StepEntries(runner.log) :
    (/\ runner.log[j].step > 0
     /\ \E d \in 1..(j - 1) :
          /\ runner.log[d].ev = "delay"
          /\ runner.log[d].run = runner.log[j].run
          /\ runner.log[d].step = runner.log[j].step - 1)
    => /\ runner.log[j].via = "timer"
       /\ LET d == LastDelayBefore(runner.log, j)
          IN  /\ runner.log[d].run = runner.log[j].run
              /\ runner.log[d].step = runner.log[j].step - 1

\* how many times the runner emitted a signal of this kind
Count(log, ev) == Cardinality({j \in 1..Len(log) : log[j].ev = ev})

\* C36: sequence_finished is never emitted more often than
\* sequence_started, and every sequence_started is in the end matched by a
\* sequence_finished, whether the run reaches the end of its list, is
\* stopped, or takes up a step that lacks a parameter.
C36_RunsAlwaysEnd ==
  /\ [](Count(runner.log, "sequence_finished") <= Count(runner.log, "sequence_started"))
  /\ <>[](Count(runner.log, "sequence_finished") = Count(runner.log, "sequence_started"))

\* the steps of one run are taken up in list order, each at most once:
\* the first is step 0 and each later one is the step after the one before
InListOrder(log) ==
  \A j \in StepEntries(log) :
    LET before == {i \in StepEntries(log) : i < j /\ log[i].run = log[j].run}
    IN  IF before = {} THEN log[j].step = 0
        ELSE LET i == CHOOSE i \in before : \A h \in before : h <= i
             IN  log[j].step = log[i].step + 1

\* a step in which the runner's log grows by the taking up of a step
TakesUpStep ==
  /\ Len(runner'.log) > Len(runner.log)
  /\ \E j \in StepEntries(runner'.log) : j > Len(runner.log)

\* C37: within one run the steps are taken up in list order, each at most
\* once, each being the entry of the loaded list at its index; and from the
\* return of stop_sequence to the next load_and_start_sequence no step is
\* taken up and nothing is emitted, whatever callbacks were pending.
C37_StepOrderAndStop ==
  /\ []InListOrder(runner.log)
  /\ [][/\ TakesUpStep =>
             Last(runner'.log).type
               = runner'.sequence[Last(runner'.log).step + 1].type
        /\ runner.stop_returned /\ runner'.handler # "load_and_start_sequence"
             => runner'.log = runner.log]_vars

\* a callback left pending by a step ran after stop_sequence had returned
C37_Witness ==
  /\ runner.handler = "_process_next_step"
  /\ runner.stop_returned
  /\ runner.pending = 0
  /\ Len(runner.log) >= 3
  /\ Last(runner.log).via = "stop"

\* the timeouts logged by the last handler
TimeoutsLogged(em) == {i \in 1..Len(em) : em[i].kind = "timeout"}

\* C33: every written command stops being awaited at most once and in one
\* way: the j-th resolution is that of the j-th written command, under its
\* id, so no command is released by an ack and also timed out or cut off by
\* a disconnect; a timeout is logged only by the step that gives up the
\* command written last, awaited since its write, and names that command's
\* id; a step that releases a command by its ack logs no timeout.
C33_ResolvedInOneWay ==
  /\ [](/\ Len(resolved) <= Len(written)
        /\ \A j \in 1..Len(resolved) :
             /\ resolved[j].n = written[j].n
             /\ resolved[j].com_id = written[j].com_id
        /\ \A i, j \in 1..Len(resolved) :
             resolved[i].n = resolved[j].n => i = j)
  /\ [][IF TimeoutsLogged(emitted') # {} THEN
          /\ op' = "_handle_ack_timeout"
          /\ Cardinality(TimeoutsLogged(emitted')) = 1
          /\ Len(resolved) = Len(written) - 1
          /\ waiting_for_com_id = Last(written).com_id
          /\ SubSeq(resolved', 1, Len(resolved)) = resolved
          /\ Len(resolved') = Len(resolved) + 1
          /\ Last(resolved') = [n |-> Last(written).n,
                                com_id |-> Last(written).com_id,
                                how |-> "timeout"]
          /\ \A i \in TimeoutsLogged(emitted') :
               emitted'[i].payload = Last(written).com_id
        ELSE \A j \in (Len(resolved) + 1)..Len(resolved') :
               resolved'[j].how # "timeout"]_vars

\* three written commands, one released by its ack, one timed out, one cut
\* off by a disconnect
C33_Witness ==
  /\ Len(resolved) = 3
  /\ \E i, j, k \in 1..3 :
       /\ resolved[i].how = "ack"
       /\ resolved[j].how = "timeout"
       /\ resolved[k].how = "disconnect"

\* the scheduler awaits nothing while commands are pending
IdleWithPending == waiting_for_com_id = None /\ command_queue # <<>>

\* the n-th submission was made while connected
SubmittedConnected(n) == n <= Len(submitted) /\ submitted[n].conn

\* the n-th submission was written, or a disconnect came after it
WrittenOrDiscarded(n) ==
  /\ n <= Len(submitted)
  /\ \/ \E i \in 1..Len(written) : written[i].n = n
     \/ submitted[n].cut

\* C34: if running timers expire and deferred calls are run, every command
\* submitted while connected is in the end written or discarded by a
\* disconnect, and the scheduler does not stay idle with a non-empty queue.
C34_QueueProgress ==
  /\ \A n \in 1..MaxSubmits : SubmittedConnected(n) ~> WrittenOrDiscarded(n)
  /\ IdleWithPending ~> ~IdleWithPending

\* three commands submitted on one connection were all written, the last
\* after a timeout and an acknowledgement of older ones
C34_Witness ==
  /\ Len(submitted) = 3
  /\ Len(written) = 3
  /\ \A n \in 1..3 : submitted[n].conn /\ ~submitted[n].cut
  /\ \E i, j \in 1..Len(resolved) :
       resolved[i].how = "timeout" /\ resolved[j].how = "ack"
  /\ Last(written).n = 3

====
